---- MODULE Spec2Model ----
(***************************************************************************)
(* Model of the AJ Content Engine core: the trending aggregation           *)
(* (tools/trending_fetcher.py), the source adapters, the shorts rewriter   *)
(* (tools/shorts_rewriter.py) and the video acquisition pipeline           *)
(* (tools/video_researcher.py).                                            *)
(*                                                                         *)
(* A Python str is a sequence of one-character strings, so that lower(),   *)
(* strip(), slicing and the `in` substring test are computed.  An optional *)
(* value is None (the empty tuple) or Some(v) (a one-element tuple).       *)
(***************************************************************************)
EXTENDS Integers, Sequences, FiniteSets, TLC

\* ------------------------------------------------------------------------
\* Python values and str operations
\* ------------------------------------------------------------------------
None == <<>>

Some(v) == <<v>>

OrZero(o) == IF o = None THEN 0 ELSE o[1]

OrEmpty(o) == IF o = None THEN <<>> ELSE o[1]

UPPERCASE ==
    <<"A","B","C","D","E","F","G","H","I","J","K","L","M",
      "N","O","P","Q","R","S","T","U","V","W","X","Y","Z">>

LOWERCASE ==
    <<"a","b","c","d","e","f","g","h","i","j","k","l","m",
      "n","o","p","q","r","s","t","u","v","w","x","y","z">>

LowerOf == [c \in {UPPERCASE[i] : i \in 1..26} |->
               LOWERCASE[CHOOSE i \in 1..26 : UPPERCASE[i] = c]]

LowerChar(c) == IF c \in DOMAIN LowerOf THEN LowerOf[c] ELSE c

\* str.lower()
Lower(s) == [i \in 1..Len(s) |-> LowerChar(s[i])]

IsSpace(c) == c \in {" ", "\t", "\n"}

SetMin(S) == CHOOSE x \in S : \A y \in S : x <= y

SetMax(S) == CHOOSE x \in S : \A y \in S : x >= y

\* str.strip()
Strip(s) ==
    LET keep == {i \in 1..Len(s) : ~IsSpace(s[i])}
    IN  IF keep = {} THEN <<>> ELSE SubSeq(s, SetMin(keep), SetMax(keep))

\* s[:n] for n >= 0
Prefix(s, n) == SubSeq(s, 1, IF Len(s) < n THEN Len(s) ELSE n)

\* w in s
Contains(s, w) ==
    \E i \in 0..(Len(s) - Len(w)) : \A j \in 1..Len(w) : s[i + j] = w[j]

\* any(w in s for w in words)
ContainsAny(s, words) == \E w \in words : Contains(s, w)

\* a slice bound as Python normalises it against a sequence of length n
ClampIndex(i, n) ==
    LET j == IF i < 0 THEN i + n ELSE i
    IN  IF j < 0 THEN 0 ELSE IF j > n THEN n ELSE j

\* s[start:end]
PySlice(s, start, end) ==
    LET a == ClampIndex(start, Len(s))
        b == ClampIndex(end, Len(s))
    IN  IF a < b THEN SubSeq(s, a + 1, b) ELSE <<>>

\* list.sort(key=..., reverse=True) over <<key, item>> pairs: stable, so
\* pairs of equal key keep their original relative order
InsertDesc(p, s) ==
    LET n == Cardinality({i \in 1..Len(s) : s[i][1] >= p[1]})
    IN  SubSeq(s, 1, n) \o <<p>> \o SubSeq(s, n + 1, Len(s))

RECURSIVE SortDesc(_)
SortDesc(s) ==
    IF s = <<>> THEN <<>>
    ELSE InsertDesc(s[Len(s)], SortDesc(SubSeq(s, 1, Len(s) - 1)))

Repeat(c, n) == [i \in 1..n |-> c]

SeqsUpTo(S, n) == UNION {[1..k -> S] : k \in 0..n}

\* ------------------------------------------------------------------------
\* tools/trending_fetcher.py
\* ------------------------------------------------------------------------
SERPER_QUERIES == <<"breaking", "breaking", "tools", "tools",
                    "startups", "startups", "research", "research">>

REDDIT_SUBS == <<"artificial", "MachineLearning", "LocalLLaMA", "ChatGPT">>

\* the (source_type, forced_cat) of the task list, in the order it is built
TASKS ==
    [i \in 1..Len(SERPER_QUERIES) |->
        [source_type |-> "serper", forced_cat |-> Some(SERPER_QUERIES[i])]]
    \o [i \in 1..Len(REDDIT_SUBS) |->
        [source_type |-> "reddit", forced_cat |-> None]]
    \o << [source_type |-> "hackernews",  forced_cat |-> None],
          [source_type |-> "producthunt", forced_cat |-> Some("tools")],
          [source_type |-> "arxiv",       forced_cat |-> Some("research")],
          [source_type |-> "twitter",     forced_cat |-> None],
          [source_type |-> "rss",         forced_cat |-> None] >>

\* lines 22-33: the feeds, each with the category configured for it
RSS_FEEDS ==
    << [name |-> "Anthropic Blog",    category |-> "breaking"],
       [name |-> "Google AI Blog",    category |-> "research"],
       [name |-> "OpenAI Blog",       category |-> "breaking"],
       [name |-> "TechCrunch AI",     category |-> "breaking"],
       [name |-> "The Verge AI",      category |-> "breaking"],
       [name |-> "Ars Technica",      category |-> "tools"],
       [name |-> "DeepMind Blog",     category |-> "research"],
       [name |-> "Hugging Face Blog", category |-> "tools"],
       [name |-> "MarkTechPost",      category |-> "research"],
       [name |-> "VentureBeat AI",    category |-> "startups"] >>

TOOLS_WORDS == {
    <<"l","a","u","n","c","h">>, <<"r","e","l","e","a","s","e">>, <<"t","o","o","l">>,
    <<"a","p","p">>, <<"p","r","o","d","u","c","t">>, <<"a","p","i">>,
    <<"o","p","e","n"," ","s","o","u","r","c","e">>, <<"g","i","t","h","u","b">> }

RESEARCH_WORDS == {
    <<"p","a","p","e","r">>, <<"r","e","s","e","a","r","c","h">>, <<"a","r","x","i","v">>,
    <<"b","e","n","c","h","m","a","r","k">>, <<"m","o","d","e","l">>,
    <<"t","r","a","i","n","i","n","g">>, <<"w","e","i","g","h","t","s">>,
    <<"t","r","a","n","s","f","o","r","m","e","r">>, <<"d","i","f","f","u","s","i","o","n">> }

STARTUP_WORDS == {
    <<"f","u","n","d","i","n","g">>, <<"r","a","i","s","e">>, <<"s","t","a","r","t","u","p">>,
    <<"s","e","r","i","e","s">>, <<"v","a","l","u","a","t","i","o","n">>, <<"y","c">>, <<"v","c">>,
    <<"a","c","q","u","i","s","i","t","i","o","n">> }

\* variant: hackernews is not among the community sources
SourceCategoryNoHackerNews(source) ==
    IF source \in {"reddit", "twitter"} THEN "community"
    ELSE IF source = "producthunt" THEN "tools"
    ELSE IF source = "arxiv" THEN "research"
    ELSE "breaking"

\* lines 440-446: the category by source when no keyword matched
SourceCategory(source) ==
    IF source \in {"reddit", "hackernews", "twitter"} THEN "community"
    ELSE IF source = "producthunt" THEN "tools"
    ELSE IF source = "arxiv" THEN "research"
    ELSE "breaking"

\* variant: the research keywords are tested before the tools keywords
CategorizeResearchFirst(topic, query_category) ==
    LET title   == Lower(OrEmpty(topic.title))
        snippet == Lower(topic.snippet)
        text    == title \o <<" ">> \o snippet
    IN  IF query_category # None /\ query_category[1] # "" THEN query_category[1]
        ELSE IF ContainsAny(text, RESEARCH_WORDS) THEN "research"
        ELSE IF ContainsAny(text, TOOLS_WORDS) THEN "tools"
        ELSE IF ContainsAny(text, STARTUP_WORDS) THEN "startups"
        ELSE SourceCategory(topic.source)

categorize_topic(topic, query_category) ==
    LET title   == Lower(OrEmpty(topic.title))
        snippet == Lower(topic.snippet)
        text    == title \o <<" ">> \o snippet
    IN  IF query_category # None /\ query_category[1] # "" THEN query_category[1]
        ELSE IF ContainsAny(text, TOOLS_WORDS) THEN "tools"
        ELSE IF ContainsAny(text, RESEARCH_WORDS) THEN "research"
        ELSE IF ContainsAny(text, STARTUP_WORDS) THEN "startups"
        ELSE SourceCategory(topic.source)

TITLE_KEY_LEN == 60

\* variant: the title is truncated before it is stripped
TitleKeyTruncFirst(title) == Strip(Prefix(Lower(title), TITLE_KEY_LEN))

\* topic["title"].lower().strip()[:60]
TitleKey(title) == Prefix(Strip(Lower(title)), TITLE_KEY_LEN)

\* topic.get("snippet") or f"Trending on {source_name}"
WhyTrending(topic) ==
    IF topic.snippet # <<>> THEN topic.snippet
    ELSE <<"Trending on ", topic.source_name>>

Tagged(topic, forced_cat) ==
    [title        |-> topic.title,
     score        |-> topic.score,
     snippet      |-> topic.snippet,
     source       |-> topic.source,
     source_name  |-> topic.source_name,
     category     |-> categorize_topic(topic, forced_cat),
     why_trending |-> WhyTrending(topic)]

\* lines 488-502 over the results of tasks i..Len(raw): the deduplicated
\* list, given the topics kept and the keys seen so far
RECURSIVE MergeFrom(_, _, _, _, _)
MergeFrom(raw, i, j, seen, acc) ==
    IF i > Len(raw) THEN acc
    ELSE IF raw[i].kind # "list" \/ j > Len(raw[i].val)
         THEN MergeFrom(raw, i + 1, 1, seen, acc)
    ELSE LET topic == raw[i].val[j]
             key   == TitleKey(topic.title[1])
         IN  IF key \in seen
             THEN MergeFrom(raw, i, j + 1, seen, acc)
             ELSE MergeFrom(raw, i, j + 1, seen \cup {key},
                            Append(acc, Tagged(topic, TASKS[i].forced_cat)))

\* topic["title"].lower() raises AttributeError on a None title
MergeRaises(raw) ==
    \E i \in 1..Len(raw) :
        /\ raw[i].kind = "list"
        /\ \E j \in 1..Len(raw[i].val) : raw[i].val[j].title = None

\* variant: a topic without a score sorts below every scored topic
SortByScoreNoneLast(topics) ==
    LET pairs == [i \in 1..Len(topics) |->
                    <<IF topics[i].score = None THEN -1000 ELSE topics[i].score[1],
                      topics[i]>>]
        s     == SortDesc(pairs)
    IN  [i \in 1..Len(s) |-> s[i][2]]

\* all_topics.sort(key=lambda t: (t.get("score") or 0), reverse=True)
SortByScore(topics) ==
    LET pairs == [i \in 1..Len(topics) |-> <<OrZero(topics[i].score), topics[i]>>]
        s     == SortDesc(pairs)
    IN  [i \in 1..Len(s) |-> s[i][2]]

\* ---- the adapter outputs of a pass ----
\* every topic and every failed task of a pass counts as one event
MaxEvents == 3

\* tasks whose adapter answers; the adapters of the other tasks return []
Answering == {1, 9, 14, 17}

\* titles of the topics the trending sources return
TrendTitle ==
    [ a |->
          <<"A","I"," ","T","o","o","l">>,
      a_lower |->
          <<" ","a","i"," ","t","o","o","l"," ">>,
      b |->
          <<"S","e","e","d"," ","f","u","n","d","i","n","g">>,
      long_padded |->
          <<" ">> \o Repeat("x", 59) \o <<"y","z">>,
      long |->
          Repeat("x", 59) \o <<"y","w">> ]

\* the titles in the response of each answering source; None is a JSON null
AdapterTitles(i) ==
    CASE i = 1  -> {Some(TrendTitle.a), Some(TrendTitle.long_padded), None}
      [] i = 9  -> {Some(TrendTitle.a_lower), Some(TrendTitle.long)}
      [] i = 14 -> {Some(TrendTitle.a), Some(TrendTitle.b)}
      [] i = 17 -> {Some(TrendTitle.a_lower), Some(TrendTitle.long_padded)}

AdapterScores(source) ==
    IF source \in {"reddit", "hackernews", "twitter"}
    THEN {Some(-1), Some(5)}
    ELSE {None}

AdapterSourceName(source) ==
    CASE source = "serper"      -> ""
      [] source = "reddit"      -> "r/artificial"
      [] source = "hackernews"  -> "Hacker News"
      [] source = "producthunt" -> "Product Hunt"
      [] source = "arxiv"       -> "ArXiv"
      [] source = "twitter"     -> "Twitter/X"
      [] source = "rss"         -> "Anthropic Blog"

\* the records the adapter of task i can return
AdapterTopics(i) ==
    LET src == TASKS[i].source_type
    IN  {[title |-> t, score |-> s, snippet |-> <<>>, source |-> src,
          source_name |-> AdapterSourceName(src)] :
            t \in AdapterTitles(i), s \in AdapterScores(src)}

Pending == [kind |-> "pending", val |-> <<>>]

Raised == [kind |-> "exception", val |-> <<>>]

Returned(list) == [kind |-> "list", val |-> list]

EventsUsed(raw) ==
    LET RECURSIVE Sum(_)
        Sum(i) == IF i = 0 THEN 0
                  ELSE Sum(i - 1) + (IF raw[i].kind = "exception" THEN 1
                                     ELSE Len(raw[i].val))
    IN  Sum(Len(raw))

VARIABLES tpc, page, per_page, raw_results, completed, all_topics, response,
          apc, a_name, a_cred, a_outcome, a_items, a_ret,
          vpc, v_creds, tmp_dir_exists, proc_running, v_download, v_stderr,
          v_dl, v_upload, v_result,
          spc, s_topics, s_max, s_key, s_scored, s_selected, s_llm, s_rewritten, s_path, s_ideas,
          cpc, c_topic, c_forced, c_category,
          bpc, b_video, b_parts, b_score,
          xpc, x_max, x_raw, x_unique, x_result

tvars == <<tpc, page, per_page, raw_results, completed, all_topics, response>>

avars == <<apc, a_name, a_cred, a_outcome, a_items, a_ret>>

vvars == <<vpc, v_creds, tmp_dir_exists, proc_running, v_download, v_stderr,
           v_dl, v_upload, v_result>>

svars == <<spc, s_topics, s_max, s_key, s_scored, s_selected, s_llm, s_rewritten,
           s_path, s_ideas>>

cvars == <<cpc, c_topic, c_forced, c_category>>

bvars == <<bpc, b_video, b_parts, b_score>>

xvars == <<xpc, x_max, x_raw, x_unique, x_result>>

vars == <<tvars, avars, vvars, svars, cvars, bvars, xvars>>

NoResponse == [topics |-> <<>>, total |-> 0, page |-> 0, has_more |-> FALSE]

TrendingIdle ==
    /\ tpc = "idle"
    /\ page = 0
    /\ per_page = 50
    /\ raw_results = [i \in 1..Len(TASKS) |-> Pending]
    /\ completed = <<>>
    /\ all_topics = <<>>
    /\ response = NoResponse

\* fetch_all_trending(page, per_page) up to the gather: the tasks are started
FetchAllTrending(p, pp) ==
    /\ tpc = "idle"
    /\ tpc' = "gather"
    /\ page' = p
    /\ per_page' = pp
    /\ raw_results' = [i \in 1..Len(TASKS) |->
                          IF i \in Answering THEN Pending ELSE Returned(<<>>)]
    /\ completed' = <<>>
    /\ UNCHANGED <<all_topics, response, avars, vvars, svars, cvars, bvars, xvars>>

\* task i completes with a list; `completed` is the history of the tasks
\* that returned topics, in the order they completed
TaskReturn(i) ==
    /\ tpc = "gather"
    /\ raw_results[i] = Pending
    /\ \E list \in SeqsUpTo(AdapterTopics(i), MaxEvents - EventsUsed(raw_results)) :
          /\ raw_results' = [raw_results EXCEPT ![i] = Returned(list)]
          /\ completed' = IF list = <<>> THEN completed ELSE Append(completed, i)
    /\ UNCHANGED <<tpc, page, per_page, all_topics, response, avars, vvars, svars, cvars, bvars, xvars>>

\* task i completes with an exception, which gather returns as a value
TaskRaise(i) ==
    /\ tpc = "gather"
    /\ raw_results[i] = Pending
    /\ EventsUsed(raw_results) + 1 <= MaxEvents
    /\ raw_results' = [raw_results EXCEPT ![i] = Raised]
    /\ UNCHANGED completed
    /\ UNCHANGED <<tpc, page, per_page, all_topics, response, avars, vvars, svars, cvars, bvars, xvars>>

\* variant: has_more also on the page that ends exactly at the total
PaginateInclusive(sorted, p, pp) ==
    LET start == p * pp
        end   == start + pp
    IN  [topics   |-> PySlice(sorted, start, end),
         total    |-> Len(sorted),
         page     |-> p,
         has_more |-> end <= Len(sorted)]

\* lines 507-516: the page slice and the response record
Paginate(sorted, p, pp) ==
    LET start == p * pp
        end   == start + pp
    IN  [topics   |-> PySlice(sorted, start, end),
         total    |-> Len(sorted),
         page     |-> p,
         has_more |-> end < Len(sorted)]

\* variant: the gather hands over the results of the tasks that returned
\* topics in the order they completed, ahead of the other results
GatheredAsCompleted(raw, order) ==
    LET rest  == {i \in 1..Len(raw) : \A k \in 1..Len(order) : order[k] # i}
        RECURSIVE Ascending(_)
        Ascending(S) == IF S = {} THEN <<>>
                        ELSE <<SetMin(S)>> \o Ascending(S \ {SetMin(S)})
        visit == order \o Ascending(rest)
    IN  [k \in 1..Len(raw) |-> raw[visit[k]]]

\* raw_results = await asyncio.gather(*tasks, return_exceptions=True): the
\* results are in the order of the task list, whatever the completion order
Gathered(raw, order) == raw

\* variant: the gather returns as soon as one task has completed
GatherReturnsEarly(raw) == \E i \in 1..Len(raw) : i \in Answering /\ raw[i] # Pending

\* await asyncio.gather(...) returns once every task has returned or raised
GatherReturns(raw) == \A i \in 1..Len(raw) : raw[i] # Pending

\* the gather has returned: merge, deduplicate, sort, paginate (485-525)
MergeAndPaginate ==
    /\ tpc = "gather"
    /\ GatherReturns(raw_results)
    /\ IF MergeRaises(raw_results)
       THEN /\ tpc' = "raised"
            /\ UNCHANGED <<all_topics, response>>
       ELSE LET gathered == Gathered(raw_results, completed)
                sorted == SortByScore(MergeFrom(gathered, 1, 1, {}, <<>>))
            IN  /\ tpc' = "done"
                /\ all_topics' = sorted
                /\ response' = Paginate(sorted, page, per_page)
    /\ UNCHANGED <<page, per_page, raw_results, completed, avars, vvars, svars, cvars, bvars, xvars>>

\* ------------------------------------------------------------------------
\* The source adapters (trending_fetcher.py 40-411, video_researcher.py
\* 65-157).  A call is one request and the parse of its response; a
\* response is a sequence of raw records, each of one kind:
\*   "good"       maps to a record
\*   "filtered"   is dropped by the adapter's relevance filter (continue)
\*   "bad_date"   has a date the adapter cannot parse
\*   otherwise    the exception that mapping the record raises
\* ------------------------------------------------------------------------
ADAPTERS == {"fetch_serper", "fetch_reddit", "fetch_hackernews",
             "fetch_producthunt", "fetch_arxiv", "fetch_twitter",
             "fetch_rss_feed", "search_youtube", "search_serper_videos"}

\* `if not SERPER_KEY: return []` and its like
NeedsCredential(a) ==
    a \in {"fetch_serper", "fetch_twitter", "search_serper_videos"}

\* resp.raise_for_status()
ChecksStatus(a) == a = "search_serper_videos"

\* the try/except around the date parse, which falls back to "Recent"
DateGuarded(a) ==
    a \in {"fetch_hackernews", "fetch_arxiv", "fetch_twitter", "fetch_rss_feed"}

\* the per-record handler: `except (json.JSONDecodeError, KeyError): continue`
InnerCatches(a, exc) ==
    a = "search_youtube" /\ exc \in {"JSONDecodeError", "KeyError"}

\* variant: the outer handler catches the request errors only
OuterCatchesRequestOnly(a, exc) ==
    exc \in {"ConnectError", "TimeoutError", "FileNotFoundError"}

\* the handler around the whole body: `except Exception`
OuterCatches(a, exc) == TRUE

\* the raw record kinds that the response of adapter a can hold
RecordKinds(a) ==
    CASE a = "fetch_serper"         -> {"good", "AttributeError"}
      [] a = "fetch_reddit"         -> {"good", "filtered", "AttributeError", "bad_date"}
      [] a = "fetch_hackernews"     -> {"good", "AttributeError", "bad_date"}
      [] a = "fetch_producthunt"    -> {"good", "filtered"}
      [] a = "fetch_arxiv"          -> {"good", "bad_date"}
      [] a = "fetch_twitter"        -> {"good", "filtered", "KeyError", "bad_date"}
      [] a = "fetch_rss_feed"       -> {"good", "filtered", "bad_date"}
      [] a = "search_youtube"       -> {"good", "filtered", "JSONDecodeError", "AttributeError"}
      [] a = "search_serper_videos" -> {"good", "AttributeError"}

\* how the request of adapter a can end
RequestOutcomes(a) ==
    IF a = "search_youtube"
    THEN {"ok", "timeout", "not_found"}
    ELSE {"ok", "network_error", "timeout", "bad_status", "bad_body"}

\* the exception a failed request raises inside the adapter's try block;
\* "none" when the adapter goes on to parse
RequestException(a, outcome) ==
    CASE outcome = "ok"            -> "none"
      [] outcome = "network_error" -> "ConnectError"
      [] outcome = "timeout"       -> "TimeoutError"
      [] outcome = "not_found"     -> "FileNotFoundError"
      [] outcome = "bad_body"      -> "JSONDecodeError"
      [] outcome = "bad_status"    -> IF ChecksStatus(a) THEN "HTTPStatusError" ELSE "none"

\* the exception, if any, that leaves the mapping of one raw record
RecordException(a, kind) ==
    IF kind \in {"good", "filtered"} THEN "none"
    ELSE IF kind = "bad_date" THEN (IF DateGuarded(a) THEN "none" ELSE "TypeError")
    ELSE IF InnerCatches(a, kind) THEN "none"
    ELSE kind

\* the record appended for raw record i, if one is
RecordOf(a, items, i) ==
    IF items[i] = "good" THEN <<[index |-> i, time_ago |-> "parsed"]>>
    ELSE IF items[i] = "bad_date" /\ DateGuarded(a)
         THEN <<[index |-> i, time_ago |-> "Recent"]>>
    ELSE <<>>

\* the parse loop from raw record i on, with the records appended so far
RECURSIVE ParseFrom(_, _, _, _)
ParseFrom(a, items, i, results) ==
    IF i > Len(items) THEN [exc |-> "none", val |-> results]
    ELSE IF RecordException(a, items[i]) # "none"
         THEN [exc |-> RecordException(a, items[i]), val |-> <<>>]
    ELSE ParseFrom(a, items, i + 1, results \o RecordOf(a, items, i))

\* the body of the adapter after its credential check
AdapterBody(a, outcome, items) ==
    LET body == IF RequestException(a, outcome) # "none"
                THEN [exc |-> RequestException(a, outcome), val |-> <<>>]
                ELSE ParseFrom(a, items, 1, <<>>)
    IN  IF body.exc = "none" THEN [exc |-> "none", val |-> body.val]
        ELSE IF OuterCatches(a, body.exc) THEN [exc |-> "none", val |-> <<>>]
        ELSE body

MaxRecords == 3

AdapterIdle ==
    /\ apc = "idle"
    /\ a_name = "fetch_serper"
    /\ a_cred = TRUE
    /\ a_outcome = "ok"
    /\ a_items = <<>>
    /\ a_ret = <<>>

\* the adapter is called: without its credential it returns [] at once,
\* otherwise it issues its request
AdapterCall(a, cred) ==
    /\ apc = "idle"
    /\ a_name' = a
    /\ a_cred' = cred
    /\ apc' = IF NeedsCredential(a) /\ ~cred THEN "returned" ELSE "request"
    /\ UNCHANGED <<a_outcome, a_items, a_ret, tvars, vvars, svars, cvars, bvars, xvars>>

\* the request ends and the adapter runs to its return
AdapterRespond(outcome, items) ==
    /\ apc = "request"
    /\ a_outcome' = outcome
    /\ a_items' = items
    /\ LET r == AdapterBody(a_name, outcome, items)
       IN  /\ apc' = IF r.exc = "none" THEN "returned" ELSE "raised"
           /\ a_ret' = r.val
    /\ UNCHANGED <<a_name, a_cred, tvars, vvars, svars, cvars, bvars, xvars>>

NextAdapter ==
    \/ \E a \in ADAPTERS, cred \in BOOLEAN : AdapterCall(a, cred)
    \/ \E outcome \in RequestOutcomes(a_name) :
          \E items \in (IF outcome \in {"ok", "bad_status"}
                         THEN SeqsUpTo(RecordKinds(a_name), MaxRecords)
                         ELSE {<<>>}) : AdapterRespond(outcome, items)

\* ------------------------------------------------------------------------
\* tools/video_researcher.py: download_video, upload_to_supabase,
\* select_and_host_video
\* ------------------------------------------------------------------------
STDERR_LIMIT == 800

ERROR_TEXT_LIMIT == 300

VIDEO_EXTENSIONS == {"mp4", "webm", "mov", "mkv"}

\* the substrings of stderr that lines 343-347 look for
ERROR_MARK ==
    [ sign_in |->
          <<"S","i","g","n"," ","i","n">>,
      bot |->
          <<"b","o","t">>,
      not_available |->
          <<"T","h","i","s"," ","v","i","d","e","o"," ","i","s"," ","n","o","t"," ", "a","v","a","i","l","a","b","l","e">>,
      unavailable |->
          <<"u","n","a","v","a","i","l","a","b","l","e">>,
      file_is_larger |->
          <<"F","i","l","e"," ","i","s"," ","l","a","r","g","e","r">>,
      filesize |->
          <<"f","i","l","e","s","i","z","e">> ]

\* variant: the availability test runs before the bot-detection test
ClassifyErrorUnavailableFirst(raw_err) ==
    IF Contains(raw_err, ERROR_MARK.not_available) \/ Contains(Lower(raw_err), ERROR_MARK.unavailable)
    THEN [class |-> "unavailable", detail |-> <<>>]
    ELSE IF Contains(raw_err, ERROR_MARK.sign_in) \/ Contains(Lower(raw_err), ERROR_MARK.bot)
    THEN [class |-> "bot_detection", detail |-> <<>>]
    ELSE IF Contains(raw_err, ERROR_MARK.file_is_larger) \/ Contains(Lower(raw_err), ERROR_MARK.filesize)
    THEN [class |-> "size_limit", detail |-> <<>>]
    ELSE [class |-> "generic", detail |-> Prefix(raw_err, ERROR_TEXT_LIMIT)]

\* the if/elif chain of lines 343-350 over the error text of download_video
ClassifyError(raw_err) ==
    IF Contains(raw_err, ERROR_MARK.sign_in) \/ Contains(Lower(raw_err), ERROR_MARK.bot)
    THEN [class |-> "bot_detection", detail |-> <<>>]
    ELSE IF Contains(raw_err, ERROR_MARK.not_available) \/ Contains(Lower(raw_err), ERROR_MARK.unavailable)
    THEN [class |-> "unavailable", detail |-> <<>>]
    ELSE IF Contains(raw_err, ERROR_MARK.file_is_larger) \/ Contains(Lower(raw_err), ERROR_MARK.filesize)
    THEN [class |-> "size_limit", detail |-> <<>>]
    ELSE [class |-> "generic", detail |-> Prefix(raw_err, ERROR_TEXT_LIMIT)]

NoOutputError == [class |-> "no_output", detail |-> <<>>]

UploadFailedError == [class |-> "upload_failed", detail |-> <<>>]

\* the first directory entry with a video extension (lines 259-263)
RECURSIVE FirstVideo(_)
FirstVideo(files) ==
    IF files = <<>> THEN None
    ELSE IF Head(files).ext \in VIDEO_EXTENSIONS THEN Some(Head(files))
    ELSE FirstVideo(Tail(files))

\* what download_video returns once the subprocess has exited
DownloadReturn(code, stderr, files) ==
    IF code # 0 THEN [kind |-> "error", err |-> Prefix(stderr, STDERR_LIMIT), filename |-> ""]
    ELSE IF FirstVideo(files) = None THEN [kind |-> "none", err |-> <<>>, filename |-> ""]
    ELSE [kind |-> "file", err |-> <<>>, filename |-> FirstVideo(files)[1].name]

DownloadNone == [kind |-> "none", err |-> <<>>, filename |-> ""]

InitialResult ==
    [status |-> "error", url |-> None, supabase_url |-> None, error |-> None,
     local_file |-> None]

\* lines 337-351: the result of a failed download
FailedResult(dl) ==
    [InitialResult EXCEPT !.error =
        Some(IF dl.kind = "none" THEN NoOutputError ELSE ClassifyError(dl.err))]

\* variant: the status is set before the upload is looked at
UploadedResultEager(dl, public_url) ==
    [status       |-> "success",
     url          |-> None,
     supabase_url |-> public_url,
     error        |-> IF public_url # None THEN None ELSE Some(UploadFailedError),
     local_file   |-> Some(dl.filename)]

\* lines 353-363: the result after the upload attempt
UploadedResult(dl, public_url) ==
    [status       |-> IF public_url # None THEN "success" ELSE "downloaded",
     url          |-> None,
     supabase_url |-> public_url,
     error        |-> IF public_url # None THEN None ELSE Some(UploadFailedError),
     local_file   |-> Some(dl.filename)]

PublicUrl(dl) == Some(<<"SUPABASE_URL/storage/v1/object/public/", dl.filename>>)

\* ---- the outcomes of the external tool ----
StderrTexts == {
    <<>>,
    <<"E","R","R","O","R",":"," ","S","i","g","n"," ","i","n"," ","t","o"," ","c","o","n","f","i","r","m">>,
    <<"E","R","R","O","R",":"," ","B","O","T"," ","c","h","e","c","k">>,
    <<"E","R","R","O","R",":"," ","T","h","i","s"," ","v","i","d","e","o"," ","i","s"," ","n","o","t"," ","a","v","a","i","l","a","b","l","e">>,
    <<"V","i","d","e","o"," ","U","n","a","v","a","i","l","a","b","l","e"," ","h","e","r","e">>,
    <<"F","i","l","e"," ","i","s"," ","l","a","r","g","e","r"," ","t","h","a","n"," ","m","a","x">>,
    <<"m","a","x"," ","F","I","L","E","S","I","Z","E"," ","h","i","t">>,
    <<"E","R","R","O","R",":"," ","b","o","o","m">>,
    <<"r","o","b","o","t"," ","s","a","y","s"," ","u","n","a","v","a","i","l","a","b","l","e">>,
    Repeat("e", 799) \o <<"b","o","t">>,
    Repeat("e", 800) \o <<"b","o","t">> }

MaxFiles == 2

VideoIdle ==
    /\ vpc = "idle"
    /\ v_creds = FALSE
    /\ tmp_dir_exists = FALSE
    /\ proc_running = FALSE
    /\ v_download = "none"
    /\ v_stderr = <<>>
    /\ v_dl = DownloadNone
    /\ v_upload = "not_attempted"
    /\ v_result = InitialResult

\* select_and_host_video is called; download_video makes its temporary
\* directory and starts the subprocess (lines 334-250)
SelectAndHostVideo(creds) ==
    /\ vpc = "idle"
    /\ vpc' = "spawning"
    /\ v_creds' = creds
    /\ tmp_dir_exists' = TRUE
    /\ UNCHANGED <<proc_running, v_download, v_stderr, v_dl, v_upload, v_result,
                   tvars, avars, svars, cvars, bvars, xvars>>

\* create_subprocess_exec raises (the tool is not installed): the handler of
\* line 280 returns None
SpawnFails ==
    /\ vpc = "spawning"
    /\ vpc' = "done"
    /\ v_download' = "spawn_error"
    /\ v_result' = FailedResult(DownloadNone)
    /\ UNCHANGED <<v_creds, tmp_dir_exists, proc_running, v_stderr, v_dl, v_upload,
                   tvars, avars, svars, cvars, bvars, xvars>>

SpawnOk ==
    /\ vpc = "spawning"
    /\ vpc' = "downloading"
    /\ proc_running' = TRUE
    /\ UNCHANGED <<v_creds, tmp_dir_exists, v_download, v_stderr, v_dl, v_upload,
                   v_result, tvars, avars, svars, cvars, bvars, xvars>>

\* the 180 s wait_for expires: the handler of line 277 returns None; nothing
\* in download_video stops the subprocess
DownloadTimeout ==
    /\ vpc = "downloading"
    /\ vpc' = "done"
    /\ v_download' = "timeout"
    /\ v_result' = FailedResult(DownloadNone)
    /\ UNCHANGED <<v_creds, tmp_dir_exists, proc_running, v_stderr, v_dl, v_upload,
                   tvars, avars, svars, cvars, bvars, xvars>>

\* the subprocess exits; download_video returns and select_and_host_video
\* runs on to its return or to the upload request
ProcessExits(code, stderr, files) ==
    /\ vpc = "downloading"
    /\ proc_running' = FALSE
    /\ v_stderr' = stderr
    /\ LET dl == DownloadReturn(code, stderr, files)
       IN  /\ v_dl' = dl
           /\ v_download' = IF code # 0 THEN "nonzero"
                             ELSE IF dl.kind = "none" THEN "no_file" ELSE "ok"
           /\ IF dl.kind # "file"
              THEN /\ vpc' = "done"
                   /\ v_result' = FailedResult(dl)
                   /\ UNCHANGED <<tmp_dir_exists, v_upload>>
              ELSE IF ~v_creds
              THEN \* upload_to_supabase returns None at line 292, then cleanup
                   /\ vpc' = "done"
                   /\ v_upload' = "no_credentials"
                   /\ v_result' = UploadedResult(dl, None)
                   /\ tmp_dir_exists' = FALSE
              ELSE /\ vpc' = "uploading"
                   /\ v_upload' = "requested"
                   /\ UNCHANGED <<tmp_dir_exists, v_result>>
    /\ UNCHANGED <<v_creds, tvars, avars, svars, cvars, bvars, xvars>>

\* the upload request ends; the temporary directory is removed (365-370)
UploadCompletes(ok) ==
    /\ vpc = "uploading"
    /\ vpc' = "done"
    /\ v_upload' = IF ok THEN "ok" ELSE "failed"
    /\ v_result' = UploadedResult(v_dl, IF ok THEN PublicUrl(v_dl) ELSE None)
    /\ tmp_dir_exists' = FALSE
    /\ UNCHANGED <<v_creds, proc_running, v_download, v_stderr, v_dl, tvars, avars, svars, cvars, bvars, xvars>>

NextAcquire ==
    LET ExitCodes == {0, 1}
        DirEntries ==
            {[name |-> "clip.mp4", ext |-> "mp4"],
            [name |-> "clip.mkv", ext |-> "mkv"],
            [name |-> "clip.mp4.part", ext |-> "part"]}
    IN
        \/ \E creds \in BOOLEAN : SelectAndHostVideo(creds)
        \/ SpawnFails
        \/ SpawnOk
        \/ DownloadTimeout
        \/ \E code \in ExitCodes, stderr \in StderrTexts :
              \E files \in SeqsUpTo(DirEntries, MaxFiles) : ProcessExits(code, stderr, files)
        \/ \E ok \in BOOLEAN : UploadCompletes(ok)

\* ------------------------------------------------------------------------
\* tools/shorts_rewriter.py
\* ------------------------------------------------------------------------
COMPANIES == {
    <<"g","o","o","g","l","e">>, <<"o","p","e","n","a","i">>,
    <<"a","n","t","h","r","o","p","i","c">>, <<"m","e","t","a">>,
    <<"m","i","c","r","o","s","o","f","t">>, <<"a","p","p","l","e">>, <<"n","v","i","d","i","a">>,
    <<"a","m","a","z","o","n">>, <<"d","e","e","p","s","e","e","k">>,
    <<"m","i","s","t","r","a","l">>, <<"h","u","g","g","i","n","g"," ","f","a","c","e">> }

LAUNCH_WORDS == {
    <<"l","a","u","n","c","h">>, <<"r","e","l","e","a","s","e">>, <<"f","r","e","e">>,
    <<"o","p","e","n"," ","s","o","u","r","c","e">>, <<"t","o","o","l">>, <<"a","p","p">> }

DRAMA_WORDS == {
    <<"b","e","a","t">>, <<"k","i","l","l">>, <<"v","s">>, <<"w","a","r">>, <<"r","a","c","e">>,
    <<"l","e","a","k">>, <<"s","e","c","r","e","t">> }

CHINA_WORDS == {
    <<"c","h","i","n","a">>, <<"c","h","i","n","e","s","e">>, <<"d","e","e","p","s","e","e","k">>,
    <<"q","w","e","n">>, <<"b","a","i","d","u">> }

MODEL_NAMES == {
    <<"g","p","t">>, <<"c","l","a","u","d","e">>, <<"g","e","m","i","n","i">>,
    <<"l","l","a","m","a">>, <<"s","o","r","a">>, <<"v","e","o">>,
    <<"m","i","d","j","o","u","r","n","e","y">> }

ACADEMIC_WORDS == {
    <<"a","r","x","i","v">>, <<"p","r","o","c","e","e","d","i","n","g","s">>,
    <<"s","y","m","p","o","s","i","u","m">>, <<"e","t"," ","a","l">> }

LONG_TITLE_LEN == 120

\* shorts_score of one topic, the body of the loop of _select_best_for_shorts
ShortsScore(t) ==
    LET title == Lower(OrEmpty(t.title))
        s0 == OrZero(t.score)
        s1 == IF ContainsAny(title, COMPANIES) THEN s0 + 500 ELSE s0
        s2 == IF ContainsAny(title, LAUNCH_WORDS) THEN s1 + 400 ELSE s1
        s3 == IF ContainsAny(title, DRAMA_WORDS) THEN s2 + 600 ELSE s2
        s4 == IF ContainsAny(title, CHINA_WORDS) THEN s3 + 300 ELSE s3
        s5 == IF ContainsAny(title, MODEL_NAMES) THEN s4 + 200 ELSE s4
        s6 == IF ContainsAny(title, ACADEMIC_WORDS) THEN s5 - 500 ELSE s5
        s7 == IF Len(title) > LONG_TITLE_LEN THEN s6 - 200 ELSE s6
    IN  s7

\* the list `scored` after scored.sort(key=lambda x: x[0], reverse=True)
Scored(topics) ==
    SortDesc([i \in 1..Len(topics) |-> <<ShortsScore(topics[i]), topics[i]>>])

\* _select_best_for_shorts(topics, limit)
select_best_for_shorts(topics, limit) ==
    LET cut == PySlice(Scored(topics), 0, limit)
    IN  [i \in 1..Len(cut) |-> cut[i][2]]

FALLBACK_TITLE_MAX == 60

FALLBACK_TITLE_KEEP == 57

\* len(title) of _fallback_rewrite raises TypeError on a null title
FallbackRaises(topics) == \E i \in 1..Len(topics) : topics[i].title = None

\* the fallback cutting a long title at FALLBACK_TITLE_MAX characters
FallbackIdeaCutAtMax(t) ==
    LET title == t.title[1]
        shorts_title ==
            IF Len(title) >= FALLBACK_TITLE_MAX
            THEN Prefix(title, FALLBACK_TITLE_MAX) \o <<".", ".", ".">>
            ELSE title
    IN  [title          |-> Some(shorts_title),
         original_title |-> Some(title),
         url            |-> t.url,
         image          |-> t.image,
         source         |-> t.source,
         source_name    |-> t.source_name,
         time_ago       |-> t.time_ago,
         score          |-> t.score,
         category       |-> "shorts",
         hook_type      |-> "drama",
         angle          |-> t.snippet,
         why_trending   |-> t.snippet,
         snippet        |-> t.snippet]

FallbackIdea(t) ==
    LET title == t.title[1]
        shorts_title ==
            IF Len(title) > FALLBACK_TITLE_MAX
            THEN Prefix(title, FALLBACK_TITLE_KEEP) \o <<".", ".", ".">>
            ELSE title
    IN  [title          |-> Some(shorts_title),
         original_title |-> Some(title),
         url            |-> t.url,
         image          |-> t.image,
         source         |-> t.source,
         source_name    |-> t.source_name,
         time_ago       |-> t.time_ago,
         score          |-> t.score,
         category       |-> "shorts",
         hook_type      |-> "drama",
         angle          |-> t.snippet,
         why_trending   |-> t.snippet,
         snippet        |-> t.snippet]

\* _fallback_rewrite(topics), for topics whose titles are strings
fallback_rewrite(topics) == [i \in 1..Len(topics) |-> FallbackIdea(topics[i])]

\* one iteration of the merge loop: item is an object of the LLM's array,
\* a field of None is a key the object does not have
MergedIdea(item, original) ==
    [title          |-> IF item.shorts_title = None THEN original.title
                        ELSE item.shorts_title,
     original_title |-> original.title,
     url            |-> original.url,
     image          |-> original.image,
     source         |-> original.source,
     source_name    |-> original.source_name,
     time_ago       |-> original.time_ago,
     score          |-> original.score,
     category       |-> "shorts",
     hook_type      |-> IF item.hook_type = None THEN "drama" ELSE item.hook_type[1],
     angle          |-> OrEmpty(item.angle),
     why_trending   |-> IF item.angle = None THEN original.snippet ELSE item.angle[1],
     snippet        |-> OrEmpty(item.angle)]

\* the merge loop giving every selected topic an idea, rewritten or not
MergeRewrittenKeepAll(rewritten, selected) ==
    [i \in 1..Len(selected) |->
        MergedIdea(IF i <= Len(rewritten) THEN rewritten[i]
                   ELSE [shorts_title |-> None, hook_type |-> None, angle |-> None],
                   selected[i])]

\* the merge loop: stops at the end of the shorter of the two lists
MergeRewritten(rewritten, selected) ==
    LET n == IF Len(rewritten) < Len(selected) THEN Len(rewritten) ELSE Len(selected)
    IN  [i \in 1..n |-> MergedIdea(rewritten[i], selected[i])]

\* titles of the topics handed to the shorts rewriter
ShortsTitle ==
    [ quarterly |->
          <<"Q","u","a","r","t","e","r","l","y"," ","e","a","r","n","i","n","g","s"," ","r","e","p","o","r","t"," ","a","n","a","l","y","s","i","s">>,
      google |->
          <<"G","o","o","g","l","e"," ","r","e","l","e","a","s","e","s"," ","o","p","e","n"," ","s","o","u","r","c","e"," ","t","o","o","l">>,
      drama |->
          <<"S","e","c","r","e","t"," ","l","e","a","k">>,
      rival |->
          <<"D","e","e","p","S","e","e","k"," ","v","s"," ","G","P","T">>,
      paper |->
          <<"a","r","X","i","v"," ","p","r","o","c","e","e","d","i","n","g","s">>,
      very_long |->
          Repeat("x", 121),
      sixty |->
          Repeat("s", 60) ]

\* a topic of the pool: every topic has its own url, image, source and time_ago
ShortsTopic(title, score, n, image, source, snippet) ==
    [title |-> title, score |-> score, url |-> <<"u", n>>, image |-> image,
     source |-> source, source_name |-> <<"name", n>>, time_ago |-> <<n, "h ago">>,
     snippet |-> snippet]

ShortsTopics == {
    ShortsTopic(Some(ShortsTitle.quarterly), Some(500), 1, None,        "serper",     <<"q">>),
    ShortsTopic(Some(ShortsTitle.google),    Some(10),  2, Some("img2"), "reddit",     <<"g">>),
    ShortsTopic(Some(ShortsTitle.drama),     None,      3, None,        "twitter",    <<>>),
    ShortsTopic(Some(ShortsTitle.rival),     None,      4, Some("img4"), "hackernews", <<"r">>),
    ShortsTopic(Some(ShortsTitle.paper),     Some(10),  5, None,        "arxiv",      <<"p">>),
    ShortsTopic(Some(ShortsTitle.very_long),  None,      6, None,        "rss",        <<"l">>),
    ShortsTopic(None,                 Some(500), 7, Some("img7"), "rss",        <<"n">>),
    ShortsTopic(Some(ShortsTitle.sixty),     Some(10),  8, None,        "producthunt", <<"s">>),
    ShortsTopic(Some(TrendTitle.long),      None,      9, Some("img9"), "serper",     <<"t">>) }

\* the call fails, or json.loads raises JSONDecodeError
LLM_FAILURES == {"timeout", "http_status", "json_decode"}

\* json.loads returns something other than a list of objects
LLM_SHAPES == {"object", "number", "empty_object"}

\* iterating a number, or calling .get on a key of a non-empty object,
\* raises; an empty object has nothing to iterate
ShapeRaises(shape) == shape # "empty_object"

MaxTopics == 2

MaxItems == 2

ShortsIdle ==
    /\ spc = "idle"
    /\ s_topics = <<>>
    /\ s_max = 12
    /\ s_key = FALSE
    /\ s_scored = <<>>
    /\ s_selected = <<>>
    /\ s_llm = "none"
    /\ s_rewritten = <<>>
    /\ s_path = "none"
    /\ s_ideas = <<>>

\* the fallback on `topics`, as the return value of rewrite_for_shorts
ReturnFallback(topics) ==
    IF FallbackRaises(topics)
    THEN spc' = "raised" /\ s_ideas' = <<>>
    ELSE spc' = "done" /\ s_ideas' = fallback_rewrite(topics)

\* rewrite_for_shorts(topics, max_topics) up to the request to the LLM
RewriteForShorts(topics, max_topics, key) ==
    /\ spc = "idle"
    /\ s_topics' = topics
    /\ s_max' = max_topics
    /\ s_key' = key
    /\ s_llm' = "none"
    /\ s_rewritten' = <<>>
    /\ IF ~key
       THEN /\ s_path' = "no_key"
            /\ ReturnFallback(PySlice(topics, 0, max_topics))
            /\ UNCHANGED <<s_scored, s_selected>>
       ELSE LET selected == select_best_for_shorts(topics, max_topics)
            IN  /\ s_scored' = Scored(topics)
                /\ s_selected' = selected
                /\ s_ideas' = <<>>
                /\ IF selected = <<>>
                   THEN spc' = "done" /\ s_path' = "empty"
                   ELSE spc' = "awaiting" /\ s_path' = "none"
    /\ UNCHANGED <<tvars, avars, vvars, cvars, bvars, xvars>>

\* the LLM answers with a JSON array of objects
LLMResponds(rewritten) ==
    /\ spc = "awaiting"
    /\ spc' = "done"
    /\ s_llm' = "array"
    /\ s_rewritten' = rewritten
    /\ s_path' = "llm"
    /\ s_ideas' = MergeRewritten(rewritten, s_selected)
    /\ UNCHANGED <<s_topics, s_max, s_key, s_scored, s_selected, tvars, avars, vvars, cvars, bvars, xvars>>

\* the request fails or the text is not JSON: both handlers fall back
LLMFails(failure) ==
    /\ spc = "awaiting"
    /\ s_llm' = failure
    /\ s_path' = "fallback"
    /\ ReturnFallback(s_selected)
    /\ UNCHANGED <<s_topics, s_max, s_key, s_scored, s_selected, s_rewritten,
                   tvars, avars, vvars, cvars, bvars, xvars>>

\* the text is JSON but not an array of objects
LLMWrongShape(shape) ==
    /\ spc = "awaiting"
    /\ s_llm' = shape
    /\ IF ShapeRaises(shape)
       THEN s_path' = "fallback" /\ ReturnFallback(s_selected)
       ELSE s_path' = "llm" /\ spc' = "done" /\ s_ideas' = <<>>
    /\ UNCHANGED <<s_topics, s_max, s_key, s_scored, s_selected, s_rewritten,
                   tvars, avars, vvars, cvars, bvars, xvars>>

\* main.py 144: min(body.get("max_topics", 12), 20); None is an absent key
MAX_TOPICS_DEFAULT == 12

MAX_TOPICS_CEILING == 20

ClampMaxTopics(requested) ==
    LET asked == IF requested = None THEN MAX_TOPICS_DEFAULT ELSE requested[1]
    IN  IF asked < MAX_TOPICS_CEILING THEN asked ELSE MAX_TOPICS_CEILING

\* main.py 139-149: POST /api/shorts/generate with a non-empty list of
\* topics in its body, up to the request to the LLM
GenerateShortsIdeas(topics, requested, key) ==
    /\ topics # <<>>
    /\ RewriteForShorts(topics, ClampMaxTopics(requested), key)

NextShorts ==
    LET MaxTopicsValues == {-1, 0, 1, 2, 12}
        RewrittenItems ==
            {
            [shorts_title |-> Some(<<"H","o","o","k">>), hook_type |-> Some("tool_discovery"),
            angle |-> Some(<<"d","e","m","o">>)],
            [shorts_title |-> Some(<<"W","o","w">>), hook_type |-> Some("clickbait"),
            angle |-> None],
            [shorts_title |-> None, hook_type |-> None, angle |-> None] }
        PostedTopics ==
            [i \in 1..(MAX_TOPICS_CEILING + MaxTopics) |->
                ShortsTopic(Some(Repeat("t", i)), Some(i), i, None, "reddit", <<>>)]
        PostedMaxTopics == {None, Some(-1), Some(3), Some(50)}
    IN
        \/ \E topics \in SeqsUpTo(ShortsTopics, MaxTopics), max_topics \in MaxTopicsValues,
              key \in BOOLEAN : RewriteForShorts(topics, max_topics, key)
        \/ \E requested \in PostedMaxTopics, key \in BOOLEAN :
              GenerateShortsIdeas(PostedTopics, requested, key)
        \/ \E rewritten \in SeqsUpTo(RewrittenItems, MaxItems) : LLMResponds(rewritten)
        \/ \E failure \in LLM_FAILURES : LLMFails(failure)
        \/ \E shape \in LLM_SHAPES : LLMWrongShape(shape)

\* ------------------------------------------------------------------------
\* tools/video_researcher.py: the B-roll scorer.  The keyword lists hold no
\* word twice, so a loop over a list is a count over the set of its words.
\* ------------------------------------------------------------------------
NEWS_CHANNELS_BLOCKLIST == {
    <<"c","n","n">>, <<"c","n","b","c">>,
    <<"c","n","b","c"," ","t","e","l","e","v","i","s","i","o","n">>,
    <<"f","o","x"," ","n","e","w","s">>, <<"f","o","x"," ","b","u","s","i","n","e","s","s">>,
    <<"m","s","n","b","c">>, <<"a","b","c"," ","n","e","w","s">>,
    <<"c","b","s"," ","n","e","w","s">>, <<"n","b","c"," ","n","e","w","s">>,
    <<"p","b","s"," ","n","e","w","s","h","o","u","r">>, <<"b","b","c"," ","n","e","w","s">>,
    <<"b","b","c">>, <<"s","k","y"," ","n","e","w","s">>,
    <<"a","l"," ","j","a","z","e","e","r","a">>, <<"d","w"," ","n","e","w","s">>,
    <<"f","r","a","n","c","e"," ","2","4">>, <<"r","e","u","t","e","r","s">>,
    <<"a","s","s","o","c","i","a","t","e","d"," ","p","r","e","s","s">>, <<"a","p">>,
    <<"b","l","o","o","m","b","e","r","g"," ","t","e","l","e","v","i","s","i","o","n">>,
    <<"b","l","o","o","m","b","e","r","g">>,
    <<"b","l","o","o","m","b","e","r","g"," ","t","e","c","h","n","o","l","o","g","y">>,
    <<"y","a","h","o","o"," ","f","i","n","a","n","c","e">>,
    <<"t","h","e"," ","w","a","l","l"," ","s","t","r","e","e","t"," ","j","o","u","r","n","a","l">>,
    <<"w","s","j">>, <<"t","h","e"," ","d","a","i","l","y"," ","s","h","o","w">>,
    <<"l","a","s","t"," ","w","e","e","k"," ","t","o","n","i","g","h","t">>,
    <<"j","o","e"," ","r","o","g","a","n">>, <<"l","e","x"," ","f","r","i","d","m","a","n">> }

DEMO_WORDS == {
    <<"d","e","m","o">>, <<"t","u","t","o","r","i","a","l">>,
    <<"w","a","l","k","t","h","r","o","u","g","h">>, <<"h","o","w"," ","t","o">>,
    <<"s","c","r","e","e","n"," ","r","e","c","o","r","d","i","n","g">>,
    <<"h","a","n","d","s"," ","o","n">>, <<"h","a","n","d","s","-","o","n">>,
    <<"f","i","r","s","t"," ","l","o","o","k">>,
    <<"g","e","t","t","i","n","g"," ","s","t","a","r","t","e","d">>,
    <<"o","v","e","r","v","i","e","w">>, <<"f","e","a","t","u","r","e","s">>,
    <<"i","n","t","r","o","d","u","c","t","i","o","n">>, <<"i","n","t","r","o"," ","t","o">>,
    <<"u","s","i","n","g">>, <<"s","e","t","u","p">>, <<"g","u","i","d","e">>,
    <<"s","h","o","w","c","a","s","e">>, <<"p","r","e","v","i","e","w">> }

OFFICIAL_CHANNELS == {
    <<"g","o","o","g","l","e">>, <<"o","p","e","n","a","i">>,
    <<"a","n","t","h","r","o","p","i","c">>, <<"m","i","c","r","o","s","o","f","t">>,
    <<"a","p","p","l","e">>, <<"n","v","i","d","i","a">>, <<"m","e","t","a">>,
    <<"a","m","a","z","o","n">>, <<"h","u","g","g","i","n","g"," ","f","a","c","e">>,
    <<"s","t","a","b","i","l","i","t","y"," ","a","i">>,
    <<"m","i","d","j","o","u","r","n","e","y">>, <<"r","u","n","w","a","y">>,
    <<"g","o","o","g","l","e"," ","d","e","e","p","m","i","n","d">>,
    <<"g","o","o","g","l","e"," ","a","i">> }

CREATOR_WORDS == {
    <<"m","a","t","t"," ","w","o","l","f","e">>, <<"f","i","r","e","s","h","i","p">>,
    <<"t","w","o"," ","m","i","n","u","t","e"," ","p","a","p","e","r","s">>,
    <<"a","i"," ","e","x","p","l","a","i","n","e","d">>,
    <<"a","l","l"," ","a","b","o","u","t"," ","a","i">>, <<"m","a","t","t"," ","v","d","m">>,
    <<"c","o","r","b","i","n"," ","b","r","o","w","n">>,
    <<"r","i","l","e","y"," ","b","r","o","w","n">>,
    <<"w","e","b"," ","d","e","v"," ","s","i","m","p","l","i","f","i","e","d">>,
    <<"t","h","e","o">>, <<"c","o","d","i","n","g"," ","i","n"," ","f","l","o","w">> }

NEWS_WORDS == {
    <<"b","r","e","a","k","i","n","g"," ","n","e","w","s">>,
    <<"b","r","e","a","k","i","n","g",":">>, <<"l","i","v","e",":">>,
    <<"e","x","c","l","u","s","i","v","e",":">>, <<"r","e","p","o","r","t">>,
    <<"r","e","p","o","r","t","i","n","g">>, <<"a","n","c","h","o","r">>,
    <<"c","o","v","e","r","a","g","e">>, <<"i","n","t","e","r","v","i","e","w">>,
    <<"p","a","n","e","l"," ","d","i","s","c","u","s","s","i","o","n">>,
    <<"p","r","e","s","s"," ","c","o","n","f","e","r","e","n","c","e">>,
    <<"t","e","s","t","i","m","o","n","y">>, <<"h","e","a","r","i","n","g">>,
    <<"c","o","m","m","i","t","t","e","e">>,
    <<"c","o","r","r","e","s","p","o","n","d","e","n","t">>, <<"a","n","a","l","y","s","i","s">> }

NEWS_PATTERNS == {
    <<"n","e","w","s">>, <<"t","v">>, <<"t","e","l","e","v","i","s","i","o","n">>,
    <<"b","r","o","a","d","c","a","s","t">>, <<"d","a","i","l","y">>, <<"t","i","m","e","s">>,
    <<"p","o","s","t">>, <<"j","o","u","r","n","a","l">>, <<"h","e","r","a","l","d">>,
    <<"t","r","i","b","u","n","e">>, <<"g","a","z","e","t","t","e">> }

PATTERN_EXEMPT == {
    <<"p","r","o","d","u","c","t"," ","h","u","n","t">>,
    <<"h","a","c","k","e","r"," ","n","e","w","s">> }

\* _is_news_channel(channel)
is_news_channel(channel) == Strip(Lower(channel)) \in NEWS_CHANNELS_BLOCKLIST

\* the number of words of the list that occur in s
CountIn(s, words) == Cardinality({w \in words : Contains(s, w)})

\* the score is a float; it is kept in units of 1/10000, which represents
\* views / 10000 exactly
SCORE_UNIT == 10000

VIEWS_CAP == 50

\* variant: the tier bounds are exclusive at their upper end
DurationScoreExclusive(duration) ==
    IF 0 < duration /\ duration < 60 THEN 250
    ELSE IF 60 <= duration /\ duration < 180 THEN 200
    ELSE IF 180 <= duration /\ duration < 300 THEN 100
    ELSE IF 300 <= duration /\ duration < 600 THEN 0
    ELSE IF duration >= 600 THEN -200
    ELSE 0

\* the duration tier of lines 484-493
DurationScore(duration) ==
    IF 0 < duration /\ duration <= 60 THEN 250
    ELSE IF 60 < duration /\ duration <= 180 THEN 200
    ELSE IF 180 < duration /\ duration <= 300 THEN 100
    ELSE IF 300 < duration /\ duration <= 600 THEN 0
    ELSE IF duration > 600 THEN -200
    ELSE 0

\* variant: the view-count term is not capped
ViewsScoreUncapped(views) == IF views > 0 THEN views ELSE 0

\* min(views / 10000, 50) in score units
ViewsScore(views) ==
    IF views > 0
    THEN (IF views < VIEWS_CAP * SCORE_UNIT THEN views ELSE VIEWS_CAP * SCORE_UNIT)
    ELSE 0

\* the contribution of each rule of _compute_broll_score(video), in points
BrollParts(video) ==
    LET title   == Lower(video.title)
        channel == Lower(video.channel)
        desc    == Lower(video.description)
        text    == title \o <<" ">> \o desc
    IN  [demo     |-> 200 * CountIn(text, DEMO_WORDS),
         official |-> IF ContainsAny(channel, OFFICIAL_CHANNELS) THEN 300 ELSE 0,
         creator  |-> IF ContainsAny(channel, CREATOR_WORDS) THEN 150 ELSE 0,
         duration |-> DurationScore(video.duration),
         news     |-> -300 * CountIn(text, NEWS_WORDS),
         blocked  |-> IF is_news_channel(video.channel) THEN -500 ELSE 0,
         patterns |-> IF channel \in PATTERN_EXEMPT THEN 0
                      ELSE -150 * CountIn(channel, NEWS_PATTERNS)]

\* _compute_broll_score(video), in score units
compute_broll_score(video) ==
    LET parts == BrollParts(video)
    IN  SCORE_UNIT * (parts.demo + parts.official + parts.creator + parts.duration
                      + parts.news + parts.blocked + parts.patterns)
        + ViewsScore(video.views)

BrollIdle ==
    /\ bpc = "idle"
    /\ b_video = [title |-> <<>>, description |-> <<>>, channel |-> <<>>,
                  duration |-> 0, views |-> 0]
    /\ b_parts = BrollParts(b_video)
    /\ b_score = 0

\* _compute_broll_score(video)
ComputeBrollScore(video) ==
    /\ bpc = "idle"
    /\ bpc' = "scored"
    /\ b_video' = video
    /\ b_parts' = BrollParts(video)
    /\ b_score' = compute_broll_score(video)
    /\ UNCHANGED <<tvars, avars, vvars, svars, cvars, xvars>>

NextBroll ==
    LET BrollTitles ==
            {
            <<"C","l","a","u","d","e"," ","d","e","m","o">>,
            <<"S","e","t","u","p"," ","g","u","i","d","e"," ","t","u","t","o","r","i","a","l">>,
            <<"B","r","e","a","k","i","n","g"," ","n","e","w","s"," ","r","e","p","o","r","t">>,
            <<"P","l","a","i","n"," ","c","l","i","p">> }
        BrollDescriptions ==
            {
            <<>>,
            <<"A","n"," ","i","n","t","e","r","v","i","e","w">>,
            <<"Q","u","i","c","k"," ","o","v","e","r","v","i","e","w">> }
        BrollChannels ==
            {
            <<"O","p","e","n","A","I">>, <<"F","i","r","e","s","h","i","p">>,
            <<"C","N","N">>, <<"B","B","C"," ","N","e","w","s">>,
            <<"D","a","i","l","y"," ","N","e","w","s">>,
            <<"H","a","c","k","e","r"," ","N","e","w","s">>, <<"S","o","m","e"," ","D","e","v">> }
        BrollDurations == {0, 45, 60, 61, 180, 181, 300, 301, 600, 601, 700}
        BrollViews == {0, 10000, 500000, 2000000}
    IN
        \E title \in BrollTitles, description \in BrollDescriptions, channel \in BrollChannels,
           duration \in BrollDurations, views \in BrollViews :
            ComputeBrollScore([title |-> title, description |-> description,
                               channel |-> channel, duration |-> duration, views |-> views])

\* ------------------------------------------------------------------------
\* categorize_topic as a function of its arguments
\* ------------------------------------------------------------------------
\* titles handed to categorize_topic
TopicTitle ==
    [ launch |->
          <<"N","e","w"," ","A","P","I"," ","L","a","u","n","c","h">>,
      paper_only |->
          <<"B","e","n","c","h","m","a","r","k"," ","p","a","p","e","r">>,
      weights_tool |->
          <<"W","e","i","g","h","t","s"," ","t","o","o","l">>,
      model_raise |->
          <<"M","o","d","e","l"," ","r","a","i","s","e">>,
      plain |->
          <<"H","e","l","l","o"," ","w","o","r","l","d">> ]

CategorizeIdle ==
    /\ cpc = "idle"
    /\ c_topic = [title |-> None, snippet |-> <<>>, source |-> "serper"]
    /\ c_forced = None
    /\ c_category = ""

\* categorize_topic(topic, query_category)
CategorizeTopic(topic, query_category) ==
    /\ cpc = "idle"
    /\ cpc' = "returned"
    /\ c_topic' = topic
    /\ c_forced' = query_category
    /\ c_category' = categorize_topic(topic, query_category)
    /\ UNCHANGED <<tvars, avars, vvars, svars, bvars, xvars>>

NextCategorize ==
    LET CategorizeTitles ==
            {Some(TopicTitle.launch), Some(TopicTitle.paper_only), Some(TrendTitle.b),
             Some(TopicTitle.weights_tool), Some(TopicTitle.model_raise),
             Some(TopicTitle.plain), None}
        CategorizeSnippets ==
            {<<>>, <<"O","p","e","n"," ","S","o","u","r","c","e">>,
            <<"s","e","r","i","e","s"," ","B">>}
        SOURCES ==
            {"serper", "reddit", "hackernews", "producthunt", "arxiv", "twitter", "rss"}
        QueryCategories == {None, Some(""), Some("breaking"), Some("tools")}
    IN
        \E title \in CategorizeTitles, snippet \in CategorizeSnippets, source \in SOURCES,
           query_category \in QueryCategories :
            CategorizeTopic([title |-> title, snippet |-> snippet, source |-> source],
                            query_category)

\* ------------------------------------------------------------------------
\* tools/video_researcher.py: search_videos
\* ------------------------------------------------------------------------
\* re.sub(r'[^a-z0-9]', '', s)
RECURSIVE KeepAlnum(_)
KeepAlnum(s) ==
    IF s = <<>> THEN <<>>
    ELSE LET digits == {"0", "1", "2", "3", "4", "5", "6", "7", "8", "9"}
             alnum  == Head(s) \in digits \/ \E i \in 1..26 : LOWERCASE[i] = Head(s)
         IN  (IF alnum THEN <<Head(s)>> ELSE <<>>) \o KeepAlnum(Tail(s))

VIDEO_TITLE_KEY_LEN == 40

\* title_key of line 194
VideoTitleKey(title) == Prefix(KeepAlnum(Lower(title)), VIDEO_TITLE_KEY_LEN)

\* all_videos: the lists of the results that are lists, in task order
RECURSIVE AllVideos(_)
AllVideos(raw) ==
    IF raw = <<>> THEN <<>>
    ELSE (IF Head(raw).kind = "list" THEN Head(raw).val ELSE <<>>) \o AllVideos(Tail(raw))

\* variant: the title key is compared only for a video without an id
RECURSIVE DedupIdElseTitle(_, _, _, _)
DedupIdElseTitle(videos, seen_ids, seen_titles, unique) ==
    IF videos = <<>> THEN unique
    ELSE LET v         == Head(videos)
             vid       == v.video_id
             title_key == VideoTitleKey(v.title)
         IN  IF (vid # "" /\ vid \in seen_ids) \/ (vid = "" /\ title_key \in seen_titles)
             THEN DedupIdElseTitle(Tail(videos), seen_ids, seen_titles, unique)
             ELSE DedupIdElseTitle(Tail(videos), seen_ids \cup {vid},
                                   seen_titles \cup {title_key}, Append(unique, v))

\* lines 189-202: the loop over all_videos
RECURSIVE Dedup(_, _, _, _)
Dedup(videos, seen_ids, seen_titles, unique) ==
    IF videos = <<>> THEN unique
    ELSE LET v         == Head(videos)
             vid       == v.video_id
             title_key == VideoTitleKey(v.title)
         IN  IF vid # "" /\ vid \in seen_ids
             THEN Dedup(Tail(videos), seen_ids, seen_titles, unique)
             ELSE IF title_key \in seen_titles
             THEN Dedup(Tail(videos), seen_ids, seen_titles, unique)
             ELSE Dedup(Tail(videos), seen_ids \cup {vid},
                        seen_titles \cup {title_key}, Append(unique, v))

\* [v for v in unique if not _is_news_channel(v.get("channel", ""))]
RECURSIVE DropNews(_)
DropNews(videos) ==
    IF videos = <<>> THEN <<>>
    ELSE (IF is_news_channel(Head(videos).channel) THEN <<>> ELSE <<Head(videos)>>)
         \o DropNews(Tail(videos))

\* variant: an emptied list stays empty
FilterNewsStrict(unique) == DropNews(unique)

\* lines 205-209: the filter and its fallback to the unfiltered list
FilterNews(unique) ==
    LET filtered == DropNews(unique)
    IN  IF filtered = <<>> /\ unique # <<>> THEN unique ELSE filtered

\* lines 212-218: score, sort, cut
RankVideos(filtered, max_results) ==
    LET scored == SortDesc([i \in 1..Len(filtered) |->
                              <<compute_broll_score(filtered[i]), filtered[i]>>])
        cut    == PySlice(scored, 0, max_results)
    IN  [i \in 1..Len(cut) |-> cut[i][2]]

SEARCH_TASKS == <<"search_youtube", "search_youtube", "search_youtube",
                  "search_serper_videos">>

\* tasks whose adapter answers; the adapters of the other tasks return []
SearchAnswering == {1, 4}

Video(id, title, channel, duration, views) ==
    [video_id |-> id, title |-> title, channel |-> channel, description |-> <<>>,
     duration |-> duration, views |-> views]

SearchVideoPool == {
    Video("a1", <<"C","l","a","u","d","e"," ","d","e","m","o">>, <<"A","n","t","h","r","o","p","i","c">>, 45, 10000),
    Video("b2", <<"C","l","a","u","d","e"," ","D","e","m","o","!">>, <<"F","i","r","e","s","h","i","p">>, 120, 0),
    Video("a1", <<"O","t","h","e","r"," ","c","l","i","p">>, <<" ","C","N","N"," ">>, 700, 0),
    Video("", <<"C","l","a","u","d","e"," ","n","e","w","s">>, <<"B","B","C"," ","N","e","w","s">>, 300, 0),
    Video("", <<"c","l","a","u","d","e"," "," ","n","e","w","s">>, <<"S","o","m","e"," ","D","e","v">>, 30, 0),
    Video("c3", <<"S","e","t","u","p"," ","g","u","i","d","e">>, <<"D","a","i","l","y"," ","N","e","w","s">>, 200, 0) }

MaxVideos == 3

VideosUsed(raw) ==
    LET RECURSIVE Sum(_)
        Sum(i) == IF i = 0 THEN 0
                  ELSE Sum(i - 1) + (IF raw[i].kind = "exception" THEN 1
                                     ELSE Len(raw[i].val))
    IN  Sum(Len(raw))

SearchIdle ==
    /\ xpc = "idle"
    /\ x_max = 5
    /\ x_raw = [i \in 1..Len(SEARCH_TASKS) |-> Pending]
    /\ x_unique = <<>>
    /\ x_result = <<>>

\* search_videos(topic, max_results) up to the gather
SearchVideos(max_results) ==
    /\ xpc = "idle"
    /\ xpc' = "gather"
    /\ x_max' = max_results
    /\ x_raw' = [i \in 1..Len(SEARCH_TASKS) |->
                    IF i \in SearchAnswering THEN Pending ELSE Returned(<<>>)]
    /\ UNCHANGED <<x_unique, x_result, tvars, avars, vvars, svars, cvars, bvars>>

\* search task i completes with a list
SearchTaskReturn(i) ==
    /\ xpc = "gather"
    /\ x_raw[i] = Pending
    /\ \E list \in SeqsUpTo(SearchVideoPool, MaxVideos - VideosUsed(x_raw)) :
          x_raw' = [x_raw EXCEPT ![i] = Returned(list)]
    /\ UNCHANGED <<xpc, x_max, x_unique, x_result, tvars, avars, vvars, svars, cvars, bvars>>

\* search task i completes with an exception, which gather returns as a value
SearchTaskRaise(i) ==
    /\ xpc = "gather"
    /\ x_raw[i] = Pending
    /\ VideosUsed(x_raw) + 1 <= MaxVideos
    /\ x_raw' = [x_raw EXCEPT ![i] = Raised]
    /\ UNCHANGED <<xpc, x_max, x_unique, x_result, tvars, avars, vvars, svars, cvars, bvars>>

\* the gather has returned: merge, deduplicate, filter, score, sort, cut
SearchMerge ==
    /\ xpc = "gather"
    /\ GatherReturns(x_raw)
    /\ xpc' = "done"
    /\ LET unique == Dedup(AllVideos(x_raw), {}, {}, <<>>)
       IN  /\ x_unique' = unique
           /\ x_result' = RankVideos(FilterNews(unique), x_max)
    /\ UNCHANGED <<x_max, x_raw, tvars, avars, vvars, svars, cvars, bvars>>

NextSearch ==
    LET MaxResultsValues == {-1, 1, 5}
    IN
        \/ \E max_results \in MaxResultsValues : SearchVideos(max_results)
        \/ \E i \in SearchAnswering : SearchTaskReturn(i)
        \/ \E i \in SearchAnswering : SearchTaskRaise(i)
        \/ SearchMerge

Init == TrendingIdle /\ AdapterIdle /\ VideoIdle /\ ShortsIdle /\ CategorizeIdle
        /\ BrollIdle /\ SearchIdle

NextTrending ==
    LET Pages == {-2, 0, 1}
        PerPages == {1, 50}
    IN
        \/ \E p \in Pages, pp \in PerPages : FetchAllTrending(p, pp)
        \/ \E i \in Answering : TaskReturn(i)
        \/ \E i \in Answering : TaskRaise(i)
        \/ MergeAndPaginate

SpecTrending == Init /\ [][NextTrending]_vars

SpecAdapter == Init /\ [][NextAdapter]_vars

SpecAcquire == Init /\ [][NextAcquire]_vars

SpecShorts == Init /\ [][NextShorts]_vars

SpecCategorize == Init /\ [][NextCategorize]_vars

SpecBroll == Init /\ [][NextBroll]_vars

SpecSearch == Init /\ [][NextSearch]_vars

\* ------------------------------------------------------------------------
\* Properties of fetch_all_trending
\* ------------------------------------------------------------------------
\* the deduplication key as the specification words it: the title
\* lowercased, stripped of surrounding whitespace, first 60 characters
SpecKey(topic) ==
    LET stripped == Strip(Lower(topic.title[1]))
    IN  [i \in 1..(IF Len(stripped) < 60 THEN Len(stripped) ELSE 60) |-> stripped[i]]

\* the topics the tasks of the pass returned, in task order
ReturnedTopics ==
    {<<i, j>> \in (1..Len(TASKS)) \X (1..MaxEvents + 1) :
        raw_results[i].kind = "list" /\ j <= Len(raw_results[i].val)}

\* C1: in every result no two topics share the deduplication key, the key
\* set being kept across all sources of the pass
C1_NoDuplicateKeys ==
    tpc = "done" =>
        /\ \A i, j \in 1..Len(all_topics) :
              i # j => SpecKey(all_topics[i]) # SpecKey(all_topics[j])
        /\ \A i, j \in 1..Len(response.topics) :
              i # j => SpecKey(response.topics[i]) # SpecKey(response.topics[j])

\* a pass in which two different tasks returned differently written titles
\* of one key, one of them by truncation at 60 characters
C1_Witness ==
    /\ tpc = "done"
    /\ \E a, b \in ReturnedTopics :
          LET ta == raw_results[a[1]].val[a[2]]
              tb == raw_results[b[1]].val[b[2]]
          IN  /\ a[1] # b[1]
              /\ ta.title # tb.title
              /\ SpecKey(ta) = SpecKey(tb)
              /\ Len(Strip(ta.title[1])) > 60

\* C2: the returned topics are in non-increasing order of score, a null
\* score counting as 0
C2_SortedByScore ==
    tpc = "done" =>
        /\ \A i \in 1..(Len(response.topics) - 1) :
              OrZero(response.topics[i].score) >= OrZero(response.topics[i + 1].score)
        /\ \A i \in 1..(Len(all_topics) - 1) :
              OrZero(all_topics[i].score) >= OrZero(all_topics[i + 1].score)

\* a page holding a positive score, then a null score, then a negative one
C2_Witness ==
    /\ tpc = "done"
    /\ Len(response.topics) = 3
    /\ response.topics[1].score = Some(5)
    /\ response.topics[2].score = None
    /\ response.topics[3].score = Some(-1)

\* C3: topics is all_topics[p*per_page : p*per_page+per_page], total is the
\* length of the full list, has_more iff p*per_page+per_page < total
C3_Pagination ==
    tpc = "done" =>
        LET n     == Len(all_topics)
            start == page * per_page
            end   == page * per_page + per_page
            a     == ClampIndex(start, n)
            b     == ClampIndex(end, n)
        IN  /\ response.total = n
            /\ response.has_more = (end < response.total)
            /\ Len(response.topics) = (IF b > a THEN b - a ELSE 0)
            /\ \A k \in 1..Len(response.topics) : response.topics[k] = all_topics[a + k]

\* the middle page of a three-topic list, one topic per page
C3_Witness ==
    /\ tpc = "done"
    /\ page = 1
    /\ per_page = 1
    /\ Len(all_topics) = 3
    /\ response.topics = <<all_topics[2]>>
    /\ response.has_more

\* C4: a task that raises never aborts the pass, the topics of the other
\* tasks are still merged, and when every task fails or returns nothing the
\* result is topics = [], total = 0, has_more = false
C4_FailureTolerant ==
    /\ tpc = "raised" => MergeRaises(raw_results)
    /\ tpc = "done" =>
          /\ \A a \in ReturnedTopics :
                \E k \in 1..Len(all_topics) :
                    SpecKey(all_topics[k]) = SpecKey(raw_results[a[1]].val[a[2]])
          /\ ReturnedTopics = {} =>
                /\ response.topics = <<>>
                /\ response.total = 0
                /\ response.has_more = FALSE

\* ------------------------------------------------------------------------
\* Properties of the source adapters
\* ------------------------------------------------------------------------
MissingCredential ==
    a_name \in {"fetch_serper", "fetch_twitter", "search_serper_videos"} /\ ~a_cred

RequestFailed ==
    /\ ~MissingCredential
    /\ a_outcome \in {"network_error", "timeout", "not_found", "bad_body"}

\* a raw record that is neither well formed nor merely filtered out
MalformedRecord(i) == a_items[i] \notin {"good", "filtered"}

\* a malformed record that its adapter handles on its own
ToleratedRecord(i) ==
    \/ a_name = "search_youtube" /\ a_items[i] \in {"JSONDecodeError", "KeyError"}
    \/ /\ a_items[i] = "bad_date"
       /\ a_name \in {"fetch_hackernews", "fetch_arxiv", "fetch_twitter", "fetch_rss_feed"}

\* C5 as stated: no adapter raises, and on a network error, timeout,
\* malformed response or missing credential the adapter returns exactly []
C5_AllOrNothing ==
    /\ apc # "raised"
    /\ apc = "returned" =>
          ((MissingCredential \/ RequestFailed
              \/ \E i \in 1..Len(a_items) : MalformedRecord(i)) => a_ret = <<>>)

\* C5 as amended: no adapter raises; it returns exactly [] on a missing
\* credential, a failed request, a rejected status or a record whose
\* exception reaches the outer handler, and otherwise returns one record for
\* every well-formed raw record and every record with an unparsable date
C5_FailsClosed ==
    /\ apc # "raised"
    /\ apc = "returned" =>
          LET fatal ==
                  \/ MissingCredential
                  \/ RequestFailed
                  \/ a_outcome = "bad_status" /\ a_name = "search_serper_videos"
                  \/ \E i \in 1..Len(a_items) : MalformedRecord(i) /\ ~ToleratedRecord(i)
              kept == {i \in 1..Len(a_items) : a_items[i] \in {"good", "bad_date"}}
          IN  /\ fatal => a_ret = <<>>
              /\ ~fatal =>
                    /\ Len(a_ret) = Cardinality(kept)
                    /\ \A k \in 1..Len(a_ret) : a_ret[k].index \in kept
                    /\ \A k \in 1..(Len(a_ret) - 1) :
                          a_ret[k].index < a_ret[k + 1].index

\* fetch_twitter drops the record it had parsed when the next one raises
C5_Witness ==
    /\ apc = "returned"
    /\ a_name = "fetch_twitter"
    /\ a_items = <<"good", "KeyError">>
    /\ a_ret = <<>>

\* ------------------------------------------------------------------------
\* Properties of select_and_host_video
\* ------------------------------------------------------------------------
\* C6: after select_and_host_video returns, the temporary directory of the
\* download no longer exists, on every exit path
C6_TempDirRemoved == vpc = "done" => ~tmp_dir_exists

\* C7: status is success iff download and upload succeeded, downloaded iff
\* the download succeeded and the upload failed, error iff the download
\* failed; supabase_url is set exactly on success; the upload is attempted
\* only after a successful download
C7_StatusReflectsStages ==
    /\ v_upload # "not_attempted" => v_download = "ok"
    /\ vpc = "done" =>
          LET downloaded == v_download = "ok"
              uploaded   == v_upload = "ok"
          IN  /\ (v_result.status = "success") <=> (downloaded /\ uploaded)
              /\ (v_result.status = "downloaded") <=> (downloaded /\ ~uploaded)
              /\ (v_result.status = "error") <=> ~downloaded
              /\ (v_result.supabase_url # None) <=> (v_result.status = "success")

\* a download that succeeded followed by an upload request that failed
C7_Witness ==
    /\ vpc = "done"
    /\ v_download = "ok"
    /\ v_upload = "failed"
    /\ v_result.status = "downloaded"

\* the error text that select_and_host_video inspects
InspectedText == Prefix(v_stderr, 800)

MentionsBot ==
    Contains(InspectedText, ERROR_MARK.sign_in) \/ Contains(Lower(InspectedText), ERROR_MARK.bot)

MentionsUnavailable ==
    \/ Contains(InspectedText, ERROR_MARK.not_available)
    \/ Contains(Lower(InspectedText), ERROR_MARK.unavailable)

MentionsSize ==
    \/ Contains(InspectedText, ERROR_MARK.file_is_larger)
    \/ Contains(Lower(InspectedText), ERROR_MARK.filesize)

\* the error is of exactly the class that the inspection of stderr selects
ClassifiedByStderr ==
    /\ v_result.status = "error"
    /\ v_result.error # None
    /\ LET e == v_result.error[1]
       IN  /\ e.class \in {"bot_detection", "unavailable", "size_limit", "generic"}
           /\ e.class = "bot_detection" <=> MentionsBot
           /\ e.class = "unavailable" <=> (~MentionsBot /\ MentionsUnavailable)
           /\ e.class = "size_limit" <=>
                 (~MentionsBot /\ ~MentionsUnavailable /\ MentionsSize)
           /\ e.class = "generic" =>
                 /\ Len(e.detail) <= 300
                 /\ \A k \in 1..Len(e.detail) : e.detail[k] = v_stderr[k]
                 /\ Len(e.detail) < 300 => Len(e.detail) = Len(v_stderr)

\* C8 as stated: a download that fails by non-zero exit or by timeout gives
\* status error with one of the four classes chosen by inspecting stderr
C8_FailureClassified ==
    (vpc = "done" /\ v_download \in {"nonzero", "timeout"}) => ClassifiedByStderr

\* C8 as amended: a non-zero exit gives status error with one of the four
\* classes chosen by inspecting stderr; a timeout gives status error with
\* the fixed no-output message, whatever the tool wrote
C8_NonZeroExitClassified ==
    /\ (vpc = "done" /\ v_download = "nonzero") => ClassifiedByStderr
    /\ (vpc = "done" /\ v_download = "timeout") =>
          /\ v_result.status = "error"
          /\ v_result.error = Some([class |-> "no_output", detail |-> <<>>])

\* a non-zero exit whose stderr matches two classes: the first one is chosen
C8_Witness ==
    /\ vpc = "done"
    /\ v_download = "nonzero"
    /\ MentionsBot
    /\ MentionsUnavailable
    /\ v_result.error[1].class = "bot_detection"

\* ------------------------------------------------------------------------
\* Properties of rewrite_for_shorts and _select_best_for_shorts
\* ------------------------------------------------------------------------
Adjustment(applies, weight) == IF applies THEN weight ELSE 0

\* the shorts-selection score as the specification words it: the native
\* score, null as 0, plus each of the seven adjustments at most once
SpecShortsScore(title, score) ==
    LET text == Lower(OrEmpty(title))
    IN  OrZero(score)
        + Adjustment(ContainsAny(text, COMPANIES), 500)
        + Adjustment(ContainsAny(text, LAUNCH_WORDS), 400)
        + Adjustment(ContainsAny(text, DRAMA_WORDS), 600)
        + Adjustment(ContainsAny(text, CHINA_WORDS), 300)
        + Adjustment(ContainsAny(text, MODEL_NAMES), 200)
        + Adjustment(ContainsAny(text, ACADEMIC_WORDS), -500)
        + Adjustment(Len(text) > 120, -200)

\* the selection scores of the input topics, highest first
ScoresDescending ==
    LET pairs == [i \in 1..Len(s_topics) |->
                    <<SpecShortsScore(s_topics[i].title, s_topics[i].score), i>>]
        sorted == SortDesc(pairs)
    IN  [i \in 1..Len(sorted) |-> sorted[i][1]]

\* the selection scores of the topics the returned ideas were made from
IdeaScores ==
    [i \in 1..Len(s_ideas) |->
        SpecShortsScore(s_ideas[i].original_title, s_ideas[i].score)]

IsPrefixOf(a, b) == Len(a) <= Len(b) /\ a = SubSeq(b, 1, Len(a))

\* C9: whenever rewrite_for_shorts returns for a max_topics >= 0, the ideas
\* are those of the max_topics topics of highest selection score in
\* descending score order: all of them on the two fallback paths, the first
\* ones (as many as the LLM's array holds) on the LLM path; and for the
\* Quarterly (500) and Google (10) topics with max_topics = 1 an idea that
\* is returned is for the Google topic
C9_ReturnsTopSelected ==
    (spc = "done" /\ s_max >= 0) =>
        LET want == Prefix(ScoresDescending, s_max)
        IN  /\ IF s_path = "llm"
               THEN IsPrefixOf(IdeaScores, want)
               ELSE IdeaScores = want
            /\ ( /\ s_max = 1
                 /\ Len(s_topics) = 2
                 /\ {s_topics[1].title, s_topics[2].title}
                        = {Some(ShortsTitle.quarterly), Some(ShortsTitle.google)}
                 /\ s_ideas # <<>> )
               => s_ideas[1].original_title = Some(ShortsTitle.google)

\* C10: once _select_best_for_shorts has run, every entry of `scored` holds
\* the topic's native score (null as 0) plus each adjustment at most once,
\* and the topics returned are the leading ones of `scored`, at most `limit`
\* of them (none for a negative limit), in non-increasing score order
C10_SelectBest ==
    (s_key /\ spc # "idle") =>
        /\ \A i \in 1..Len(s_scored) :
              s_scored[i][1] = SpecShortsScore(s_scored[i][2].title, s_scored[i][2].score)
        /\ \A i \in 1..(Len(s_scored) - 1) : s_scored[i][1] >= s_scored[i + 1][1]
        /\ IsPrefixOf(s_selected, [i \in 1..Len(s_scored) |-> s_scored[i][2]])
        /\ Len(s_selected) <= (IF s_max < 0 THEN 0 ELSE s_max)

\* the list the fallback was applied to: the first max_topics input topics
\* when no credential is configured, the selected topics after an LLM failure
FallbackInput ==
    IF s_path = "no_key" THEN PySlice(s_topics, 0, s_max) ELSE s_selected

FallbackReturned == spc = "done" /\ s_path \in {"no_key", "fallback"}

\* C11: when the rule-based fallback returns, it gives one idea per input
\* topic in input order; a title longer than 60 characters becomes its first
\* 57 characters followed by "..." (60 characters), a shorter title is
\* unchanged, hook_type is "drama", angle is the topic's snippet and
\* original_title is the untruncated title
C11_FallbackShape ==
    FallbackReturned =>
        /\ Len(s_ideas) = Len(FallbackInput)
        /\ \A i \in 1..Len(s_ideas) :
              LET t     == FallbackInput[i]
                  idea  == s_ideas[i]
                  title == t.title[1]
              IN  /\ idea.original_title = t.title
                  /\ idea.url = t.url
                  /\ idea.hook_type = "drama"
                  /\ idea.angle = t.snippet
                  /\ Len(title) > 60 =>
                        /\ idea.title[1] = SubSeq(title, 1, 57) \o <<".", ".", ".">>
                        /\ Len(idea.title[1]) = 60
                  /\ Len(title) <= 60 => idea.title = t.title

\* the fallback has returned ideas for a 60-character and a 61-character title
C11_Witness ==
    /\ FallbackReturned
    /\ Len(s_ideas) = 2
    /\ Len(s_ideas[1].original_title[1]) = 60
    /\ Len(s_ideas[2].original_title[1]) = 61
    /\ Len(s_ideas[2].title[1]) = 60

LLMArrayMerged == spc = "done" /\ s_llm = "array"

\* C12: when the LLM answered with an array, the output has the length of
\* the shorter of that array and the selection, and its i-th idea carries
\* the url, image, source, time_ago and score of the i-th selected topic
\* with that topic's title as original_title: selection order, not
\* re-sorted, selected topics beyond the array's end dropped
C12_MergeKeepsSelectionOrder ==
    LLMArrayMerged =>
        /\ Len(s_ideas) = (IF Len(s_rewritten) < Len(s_selected)
                           THEN Len(s_rewritten) ELSE Len(s_selected))
        /\ \A i \in 1..Len(s_ideas) :
              /\ s_ideas[i].url = s_selected[i].url
              /\ s_ideas[i].image = s_selected[i].image
              /\ s_ideas[i].source = s_selected[i].source
              /\ s_ideas[i].time_ago = s_selected[i].time_ago
              /\ s_ideas[i].score = s_selected[i].score
              /\ s_ideas[i].original_title = s_selected[i].title

\* two topics were selected and the LLM's array holds one object
C12_Witness ==
    /\ LLMArrayMerged
    /\ Len(s_selected) = 2
    /\ Len(s_rewritten) = 1
    /\ Len(s_ideas) = 1
    /\ s_ideas[1].url = s_selected[1].url

LLMFailed == s_llm \in LLM_FAILURES \cup LLM_SHAPES

\* C13: when the LLM call times out, is answered with an error status, with
\* text that is not JSON or with JSON that is not an array of objects, and
\* the selected topics have string titles, rewrite_for_shorts returns the
\* rule-based fallback of the selection: one "drama" idea per selected topic
C13_FailureFallsBack ==
    (LLMFailed /\ \A i \in 1..Len(s_selected) : s_selected[i].title # None) =>
        /\ spc = "done"
        /\ Len(s_ideas) = Len(s_selected)
        /\ \A i \in 1..Len(s_ideas) :
              /\ s_ideas[i].original_title = s_selected[i].title
              /\ s_ideas[i].url = s_selected[i].url
              /\ s_ideas[i].hook_type = "drama"

\* ------------------------------------------------------------------------
\* Cross-source duplicates and the completion order of the tasks
\* ------------------------------------------------------------------------
\* task i returned topics and did so before task j
CompletedBefore(i, j) ==
    \E a, b \in 1..Len(completed) : a < b /\ completed[a] = i /\ completed[b] = j

\* tasks i and j both returned a topic of one deduplication key
ShareKey(i, j) ==
    /\ raw_results[i].kind = "list"
    /\ raw_results[j].kind = "list"
    /\ \E a \in 1..Len(raw_results[i].val), b \in 1..Len(raw_results[j].val) :
          SpecKey(raw_results[i].val[a]) = SpecKey(raw_results[j].val[b])

\* the result keeps, for a key tasks i and j share, a topic of task j's source
KeepsFrom(i, j) ==
    \E a \in 1..Len(raw_results[i].val), k \in 1..Len(all_topics) :
        /\ \E b \in 1..Len(raw_results[j].val) :
              SpecKey(raw_results[i].val[a]) = SpecKey(raw_results[j].val[b])
        /\ SpecKey(all_topics[k]) = SpecKey(raw_results[i].val[a])
        /\ all_topics[k].source = TASKS[j].source_type

\* C14 as stated: of two tasks that returned topics of one key, the result
\* never keeps the topic of the task that completed second
C14_FirstCompletedWins ==
    tpc = "done" =>
        \A i, j \in Answering :
            (i # j /\ ShareKey(i, j) /\ CompletedBefore(i, j)) => ~KeepsFrom(i, j)

\* C14 amended: of two tasks that returned topics of one key, the result
\* never keeps the topic of the task that is later in the task list,
\* whichever of the two completed first
C14_FirstInTaskListWins ==
    tpc = "done" =>
        \A i, j \in Answering :
            (i < j /\ ShareKey(i, j)) => ~KeepsFrom(i, j)

\* the reddit task completed before the serper task, both returned a topic
\* of one key, and the result keeps the serper topic
C14_Witness ==
    /\ tpc = "done"
    /\ ShareKey(1, 9)
    /\ CompletedBefore(9, 1)
    /\ KeepsFrom(9, 1)
    /\ ~KeepsFrom(1, 9)

RawTopic(p) == raw_results[p[1]].val[p[2]]

\* p is before q in task-list order, then in the order within the task's list
ListedBefore(p, q) == p[1] < q[1] \/ (p[1] = q[1] /\ p[2] < q[2])

\* the returned topics that are the first of their key in task-list order
FirstOfKey ==
    {p \in ReturnedTopics :
        \A q \in ReturnedTopics :
            SpecKey(RawTopic(q)) = SpecKey(RawTopic(p)) => ~ListedBefore(q, p)}

\* the place of p in the result: after every kept topic of higher score and
\* every kept topic of equal score listed before it
PlaceOf(p) ==
    1 + Cardinality({q \in FirstOfKey :
            \/ OrZero(RawTopic(q).score) > OrZero(RawTopic(p).score)
            \/ /\ OrZero(RawTopic(q).score) = OrZero(RawTopic(p).score)
               /\ ListedBefore(q, p)})

\* C15: the response is a function of the per-task results, the page and the
\* page size alone, whatever order the tasks completed in: the topic list is
\* the first topic of each key in task-list order, by score then by that
\* order; and it is computed only once no task is still pending
C15_OrderIndependent ==
    /\ (tpc = "done" \/ all_topics # <<>>) =>
          \A i \in 1..Len(TASKS) : raw_results[i] # Pending
    /\ tpc = "done" =>
          /\ Len(all_topics) = Cardinality(FirstOfKey)
          /\ \A p \in FirstOfKey :
                /\ all_topics[PlaceOf(p)].title = RawTopic(p).title
                /\ all_topics[PlaceOf(p)].score = RawTopic(p).score
                /\ all_topics[PlaceOf(p)].source = RawTopic(p).source
          /\ response.topics = PySlice(all_topics, page * per_page, (page + 1) * per_page)
          /\ response.total = Cardinality(FirstOfKey)
          /\ response.has_more = ((page + 1) * per_page < Cardinality(FirstOfKey))

\* three tasks returned topics, the last of the task list first, and the
\* result holds more than one topic
C15_Witness ==
    /\ tpc = "done"
    /\ Len(completed) = 3
    /\ completed[1] = 17
    /\ completed[3] = 1
    /\ Len(all_topics) >= 2

\* ------------------------------------------------------------------------
\* Properties of categorize_topic
\* ------------------------------------------------------------------------
\* the lowercased title plus snippet of the categorized topic
CategorizedText == Lower(OrEmpty(c_topic.title)) \o <<" ">> \o Lower(c_topic.snippet)

HasToolsWord == ContainsAny(CategorizedText, TOOLS_WORDS)

HasResearchWord == ContainsAny(CategorizedText, RESEARCH_WORDS)

HasStartupWord == ContainsAny(CategorizedText, STARTUP_WORDS)

NotForced == cpc = "returned" /\ c_forced = None

\* C16: with no forced category, a topic whose text holds a tools keyword
\* and a research keyword is "tools", and one with a research keyword and a
\* startup keyword but no tools keyword is "research"
C16_KeywordPrecedence ==
    NotForced =>
        /\ (HasToolsWord /\ HasResearchWord) => c_category = "tools"
        /\ (HasResearchWord /\ HasStartupWord /\ ~HasToolsWord) => c_category = "research"

\* a topic with a tools keyword and a research keyword in its title was
\* categorized without a forced category
C16_Witness ==
    /\ NotForced
    /\ c_topic.title = Some(TopicTitle.weights_tool)
    /\ c_topic.snippet = <<>>
    /\ HasToolsWord /\ HasResearchWord
    /\ c_category = "tools"

NoKeyword == ~HasToolsWord /\ ~HasResearchWord /\ ~HasStartupWord

\* C17 as stated: with no forced category and no keyword, the category is
\* "community" for reddit, hackernews and twitter and "breaking" for every
\* other source
C17_SourceFallback ==
    (NotForced /\ NoKeyword) =>
        c_category = (IF c_topic.source \in {"reddit", "hackernews", "twitter"}
                      THEN "community" ELSE "breaking")

\* C17 amended: with no forced category and no keyword, the category is
\* "community" for reddit, hackernews and twitter, "tools" for producthunt,
\* "research" for arxiv and "breaking" for every other source
C17_SourceFallbackBySource ==
    (NotForced /\ NoKeyword) =>
        c_category = (CASE c_topic.source \in {"reddit", "hackernews", "twitter"} -> "community"
                        [] c_topic.source = "producthunt" -> "tools"
                        [] c_topic.source = "arxiv" -> "research"
                        [] OTHER -> "breaking")

\* a keyword-free topic of source arxiv was categorized without a forced
\* category
C17_Witness ==
    /\ NotForced
    /\ NoKeyword
    /\ c_topic.title = Some(TopicTitle.plain)
    /\ c_topic.source = "arxiv"
    /\ c_category = "research"

\* ------------------------------------------------------------------------
\* Properties of the B-roll scorer
\* ------------------------------------------------------------------------
\* the lowercased title plus description of the scored video
ScoredText == Lower(b_video.title) \o <<" ">> \o Lower(b_video.description)

\* C20: the demo/tutorial rule adds exactly 200 when the title/description
\* holds any keyword of the set, however many, and nothing when it holds none
C20_DemoBonusOnce ==
    bpc = "scored" =>
        b_parts.demo = (IF ContainsAny(ScoredText, DEMO_WORDS) THEN 200 ELSE 0)

\* ------------------------------------------------------------------------
\* Properties of search_videos
\* ------------------------------------------------------------------------
\* the candidates the backends returned
Candidates == {x_raw[i].val[j] : <<i, j>> \in
                 {p \in (1..Len(x_raw)) \X (1..MaxVideos + 1) :
                     x_raw[p[1]].kind = "list" /\ p[2] <= Len(x_raw[p[1]].val)}}

OnBlocklist(v) == Strip(Lower(v.channel)) \in NEWS_CHANNELS_BLOCKLIST

Kept == {x_unique[k] : k \in 1..Len(x_unique)}

Results == {x_result[k] : k \in 1..Len(x_result)}

\* C18: the result holds a blocklisted channel only if every deduplicated
\* candidate is blocklisted, and it is not empty when a backend returned a
\* candidate and max_results >= 1
C18_BlocklistWithFallback ==
    xpc = "done" =>
        /\ (\E v \in Results : OnBlocklist(v)) => \A u \in Kept : OnBlocklist(u)
        /\ (Candidates # {} /\ x_max >= 1) => x_result # <<>>

\* both deduplicated candidates are blocklisted, and the result keeps them
C18_Witness ==
    /\ xpc = "done"
    /\ x_max = 5
    /\ Len(x_unique) = 2
    /\ \A u \in Kept : OnBlocklist(u)
    /\ Len(x_result) = 2

\* C19 as stated: no two kept candidates share a non-empty identifier, and
\* of two candidates with different non-empty identifiers both identifiers
\* are kept
C19_DedupById ==
    xpc = "done" =>
        /\ \A a, b \in 1..Len(x_unique) :
              (a # b /\ x_unique[a].video_id # "") =>
                  x_unique[a].video_id # x_unique[b].video_id
        /\ \A c, d \in Candidates :
              (c.video_id # "" /\ d.video_id # "" /\ c.video_id # d.video_id) =>
                  /\ \E u \in Kept : u.video_id = c.video_id
                  /\ \E u \in Kept : u.video_id = d.video_id

\* the title key as the code builds it: lowercased, characters other than
\* a-z and 0-9 removed, first 40 characters
SpecVideoKey(v) ==
    LET low  == Lower(v.title)
        keep == SelectSeq(low, LAMBDA c : c \in {"0", "1", "2", "3", "4", "5", "6", "7", "8", "9"} \/ c \in {LOWERCASE[i] : i \in 1..26})
    IN  SubSeq(keep, 1, IF Len(keep) < 40 THEN Len(keep) ELSE 40)

\* C19 amended: no two kept candidates share a non-empty identifier or a
\* title key, whether or not they have identifiers; every candidate has its
\* identifier or its title key among the kept ones; and a candidate whose
\* identifier and title key both occur in no other candidate is kept
C19_DedupByIdOrTitle ==
    xpc = "done" =>
        /\ \A a, b \in 1..Len(x_unique) :
              a # b =>
                  /\ x_unique[a].video_id # "" =>
                        x_unique[a].video_id # x_unique[b].video_id
                  /\ SpecVideoKey(x_unique[a]) # SpecVideoKey(x_unique[b])
        /\ Kept \subseteq Candidates
        /\ \A c \in Candidates :
              \E u \in Kept :
                  \/ c.video_id # "" /\ u.video_id = c.video_id
                  \/ SpecVideoKey(u) = SpecVideoKey(c)

\* two candidates with different identifiers and one title key were
\* returned, and one of them is kept
C19_Witness ==
    /\ xpc = "done"
    /\ Cardinality(Candidates) = 2
    /\ \E c, d \in Candidates :
          /\ c.video_id # "" /\ d.video_id # "" /\ c.video_id # d.video_id
          /\ SpecVideoKey(c) = SpecVideoKey(d)
    /\ Len(x_unique) = 1

\* ------------------------------------------------------------------------
\* Penalties, duration tiers and the view-count term of the B-roll scorer
\* ------------------------------------------------------------------------
\* C21: the scorer subtracts exactly 300 when the title/description holds any
\* broadcast-news keyword, however many it holds, and a further 500 when the
\* channel is on the exact blocklist
C21_NewsPenaltyOnce ==
    bpc = "scored" =>
        /\ b_parts.news = (IF ContainsAny(ScoredText, NEWS_WORDS) THEN -300 ELSE 0)
        /\ b_parts.blocked =
              (IF Strip(Lower(b_video.channel)) \in NEWS_CHANNELS_BLOCKLIST
               THEN -500 ELSE 0)

\* the duration tiers as the specification lists them
SpecDurationTier(d) ==
    IF d <= 60 THEN 250
    ELSE IF d <= 180 THEN 200
    ELSE IF d <= 300 THEN 100
    ELSE IF d <= 600 THEN 0
    ELSE -200

\* C22 as stated: for every non-negative duration d the duration contribution
\* is +250 for d <= 60, +200 for 61..180, +100 for 181..300, 0 for 301..600
\* and -200 for d > 600
C22_DurationTiers ==
    bpc = "scored" => b_parts.duration = SpecDurationTier(b_video.duration)

\* C22 amended: the tiers hold for every duration of at least one second; a
\* duration of 0, the value of an unknown duration, contributes nothing
C22_DurationTiersKnown ==
    bpc = "scored" =>
        b_parts.duration = (IF b_video.duration = 0 THEN 0
                            ELSE SpecDurationTier(b_video.duration))

\* a video of unknown duration was scored and its duration contributed nothing
C22_Witness ==
    /\ bpc = "scored"
    /\ b_video.duration = 0
    /\ b_parts.duration = 0

\* what the view count added to the score, in score units
ViewsTerm ==
    b_score - SCORE_UNIT * (b_parts.demo + b_parts.official + b_parts.creator
                            + b_parts.duration + b_parts.news + b_parts.blocked
                            + b_parts.patterns)

\* the score of the scored video had its duration been d
ScoreWithDuration(d) == compute_broll_score([b_video EXCEPT !.duration = d])

\* C23: of two candidates that differ only in duration, 45 against 700
\* seconds, the 45-second one scores at least 450 points higher; and the
\* view-count term adds between 0 and 50 points, whatever the view count
C23_ShortBeatsLong ==
    bpc = "scored" =>
        /\ ViewsTerm >= 0
        /\ ViewsTerm <= 50 * SCORE_UNIT
        /\ b_video.duration = 45 =>
              b_score - ScoreWithDuration(700) >= 450 * SCORE_UNIT

\* a 45-second video of two million views was scored: the view-count term is
\* at its cap and the 700-second twin scores exactly 450 points less
C23_Witness ==
    /\ bpc = "scored"
    /\ b_video.duration = 45
    /\ b_video.views = 2000000
    /\ ViewsTerm = 50 * SCORE_UNIT
    /\ b_score - ScoreWithDuration(700) = 450 * SCORE_UNIT

\* the channel names the pattern rule never penalises
SpecPatternExempt ==
    { <<"p","r","o","d","u","c","t"," ","h","u","n","t">>,
      <<"h","a","c","k","e","r"," ","n","e","w","s">> }

\* C27: the scorer subtracts exactly 150 when the channel name matches the
\* generic news-outlet patterns, however many of them it matches, and nothing
\* when the channel is 'product hunt' or 'hacker news'
C27_PatternPenaltyOnce ==
    bpc = "scored" =>
        b_parts.patterns =
            (IF /\ ContainsAny(Lower(b_video.channel), NEWS_PATTERNS)
                /\ Lower(b_video.channel) \notin SpecPatternExempt
             THEN -150 ELSE 0)

\* ------------------------------------------------------------------------
\* The ranking of search_videos
\* ------------------------------------------------------------------------
\* the deduplicated candidates that survive the news filter and its fallback
Surviving ==
    IF \A u \in Kept : OnBlocklist(u) THEN Kept
    ELSE {u \in Kept : ~OnBlocklist(u)}

\* how many videos a request for max_results of n survivors is to return
SpecResultCount(max_results, n) ==
    IF max_results <= 0 THEN 0
    ELSE IF max_results < n THEN max_results ELSE n

\* C24: search_videos returns surviving candidates in non-increasing order of
\* B-roll score, and exactly the min(max_results, number surviving)
\* highest-scoring of them
C24_TopByScore ==
    xpc = "done" =>
        /\ \A k \in 1..(Len(x_result) - 1) :
              compute_broll_score(x_result[k]) >= compute_broll_score(x_result[k + 1])
        /\ Results \subseteq Surviving
        /\ \A u \in Surviving \ Results, v \in Results :
              compute_broll_score(u) <= compute_broll_score(v)
        /\ Len(x_result) = SpecResultCount(x_max, Cardinality(Surviving))

\* ------------------------------------------------------------------------
\* The server-side ceiling on max_topics
\* ------------------------------------------------------------------------
\* C25: whatever integer max_topics a request carries, zero and negative
\* values included, the shorts-generation response holds at most 20 ideas
C25_AtMostCeiling == spc = "done" => Len(s_ideas) <= 20

\* ------------------------------------------------------------------------
\* The category of a topic whose task has a known bucket
\* ------------------------------------------------------------------------
CATEGORIES == {"breaking", "tools", "research", "startups", "community"}

\* the category configured for the feed of that name
FeedCategory(name) ==
    LET feed == CHOOSE f \in {RSS_FEEDS[k] : k \in 1..Len(RSS_FEEDS)} : f.name = name
    IN  feed.category

\* the bucket known for returned topic p: the one its task carries, or the
\* configured category of its RSS feed
KnownBucket(p) ==
    IF TASKS[p[1]].forced_cat # None THEN TASKS[p[1]].forced_cat
    ELSE IF TASKS[p[1]].source_type = "rss"
         THEN Some(FeedCategory(RawTopic(p).source_name))
    ELSE None

\* C26: every kept topic of a task with a known bucket (a Serper query's
\* bucket, tools for Product Hunt, research for ArXiv, an RSS feed's
\* configured category) carries that bucket, a topic of a task without one
\* carries the category inferred from its keywords and source, and every
\* category is one of breaking, tools, research, startups, community
C26_KnownBucketKept ==
    tpc = "done" =>
        \A p \in FirstOfKey :
            LET kept == all_topics[PlaceOf(p)]
            IN  /\ kept.category \in CATEGORIES
                /\ IF KnownBucket(p) # None
                   THEN kept.category = KnownBucket(p)[1]
                   ELSE kept.category = categorize_topic(RawTopic(p), None)

\* ------------------------------------------------------------------------
\* The hook type of a returned idea
\* ------------------------------------------------------------------------
HOOK_TYPES == {"drama", "free_resource", "tool_discovery", "competition",
               "secret_leak", "how_to", "career", "mind_blown"}

\* C28: every idea rewrite_for_shorts returns, on the LLM path or the
\* fallback path and whatever the LLM answered, has a hook_type among the
\* eight values of the enum
C28_HookTypeInEnum ==
    spc = "done" => \A k \in 1..Len(s_ideas) : s_ideas[k].hook_type \in HOOK_TYPES

\* ------------------------------------------------------------------------
\* The subprocess of download_video
\* ------------------------------------------------------------------------
\* C29: once download_video has returned, on its 180-second timeout as on
\* every other path, the subprocess it started is not running any more
C29_ProcessNotLeftRunning ==
    vpc \in {"uploading", "done"} => ~proc_running

\* ------------------------------------------------------------------------
\* Malformed records at the adapter boundary
\* ------------------------------------------------------------------------
\* C30: every record an adapter returns has a string title, so the
\* deduplication of fetch_all_trending never raises, and the topics the
\* sources returned are all in the result, each under its key
C30_NoMalformedRecord ==
    /\ \A p \in ReturnedTopics : RawTopic(p).title # None
    /\ tpc # "raised"
    /\ tpc = "done" =>
          \A p \in ReturnedTopics :
              \E k \in 1..Len(all_topics) : SpecKey(all_topics[k]) = SpecKey(RawTopic(p))

====
